---- MODULE Spec2Model ----
(***************************************************************************)
(* Model of the EEG-to-sound pipeline of thebox: the frame decoder          *)
(* (thebox/ble/protocol.py), the transport's notify callback               *)
(* (thebox/ble/connection.py), the per-channel ring buffer                 *)
(* (thebox/eeg/stream.py), the event bus (thebox/events/bus.py) and the    *)
(* publishing part of the control loop (thebox/pipeline.py).               *)
(*                                                                         *)
(* Conventions.                                                            *)
(*  - Python lists and numpy arrays are TLA+ sequences (1-based); a ring   *)
(*    buffer is a function on 0 .. capacity-1, as the code indexes it.     *)
(*  - A time in seconds is an integer number of half sample periods        *)
(*    (1 / TimeDen s), so that int(seconds * SAMPLE_RATE) truncates.       *)
(*  - A sample value in microvolts is an integer number of 1/SCALE_DEN uV; *)
(*    raw * 0.48828125 = raw * 125 / 256 is exact in binary floating point *)
(*    for every 12-bit raw value.                                          *)
(***************************************************************************)
EXTENDS Integers, Sequences, FiniteSets, TLC

VARIABLES
    _buffers,      \* EEGStream._buffers : channel -> [0..capacity-1 -> sample]
    _write_pos,    \* EEGStream._write_pos : channel -> index
    _count,        \* EEGStream._count : channel -> number of buffered samples
    appended,      \* history: channel -> concatenation of all appended batches
    window,        \* the array returned by the last get_window call
    last_call,     \* history: the last store operation and its arguments
    writer,        \* the append call in progress in the transport's context
    reader,        \* the get_window call in progress in the reader's context
    completed,     \* history: store content after each completed append
    packet,        \* the frame handed to the decoder / notify callback
    samples,       \* the list returned by decode_packet for packet
    _callbacks,    \* MuseConnection._callbacks
    delivered,     \* history: (channel, samples) of every EEG callback call
    _handlers,     \* EventBus._handlers : type or None -> list of handlers
    dispatch,      \* the publish call in progress
    pending,       \* events of the control tick that are still to be published
    tick_events,   \* history: the events the detectors returned in this tick
    _running,      \* Pipeline._running: the control loop is alive
    log,           \* history: handler invocations and their outcomes, in order
    published,     \* history: the publish calls, in order
    subscriptions, \* history: the subscribe calls, in order
    duration,      \* EEGStream(duration), in half sample periods
    now,           \* the last reading of time.monotonic(), in milliseconds
    call,          \* history: the last detect call, its inputs and its result
    emitted,       \* history: the events the detector has returned, in order
    _last_blink,   \* BlinkDetector._last_blink
    _last_clench,  \* ClenchDetector._last_clench
    _zi,           \* delay memory of ClenchDetector._filt_tp9 and _filt_tp10
    _baseline_values, \* AlphaBurstDetector._baseline_values
    _in_burst,     \* AlphaBurstDetector._in_burst
    _last_update,  \* AlphaBurstDetector._last_update
    fed,           \* history: channel -> number of batches the callback appended
    detectors,     \* the detectors constructed for the session
    params,        \* Pipeline.params : the SoundParameters record
    pc,            \* the statement of Pipeline.start the coroutine is at
    last_time,     \* the local last_time of Pipeline.start
    dt,            \* the local dt of Pipeline.start
    _stream,       \* AudioOutput._stream is not None: the engine is started
    _client,       \* MuseConnection._client is not None: the transport is up
    base_frequency_range, \* TheBoxConfig.base_frequency_range, in Hz
    trace,         \* history: the steps of the tick in progress, in order
    starts,        \* history: the clock at loop entry and at every tick's start
    stop_at,       \* history: the ticks begun when stop was first requested
    conn,          \* MuseConnection: the statement connect() is at and its fields
    _buffer,       \* AudioOutput._buffer : the queued blocks, oldest first
    audio,         \* history: the blocks written, the playback callbacks' output
    result,        \* the array object the last get_window returned
    hyst,          \* the alpha state machine driven by a sequence of ratios
    built,         \* history: the constructor calls and what became of them
    stops          \* the stop() calls in progress and the exception start() carries

storeVars == <<_buffers, _write_pos, _count, appended, window, last_call>>
raceVars == <<writer, reader, completed>>
decodeVars == <<packet, samples, _callbacks, delivered>>
busVars ==
    <<_handlers, dispatch, pending, tick_events, _running, log, published, subscriptions>>
detVars ==
    <<duration, now, call, emitted, _last_blink, _last_clench, _zi,
      _baseline_values, _in_burst, _last_update, fed, detectors>>
pipeVars ==
    <<params, pc, last_time, dt, _stream, _client, base_frequency_range,
      trace, starts, stop_at>>
ioVars == <<conn, _buffer, audio, result, hyst, built, stops>>
ctlVars == <<detVars, pipeVars, ioVars>>
vars == <<storeVars, raceVars, decodeVars, busVars, ctlVars>>

None == "None"

Min(a, b) == IF a <= b THEN a ELSE b

Max(a, b) == IF a >= b THEN a ELSE b

\* seq[-k:] for 0 < k; the last k elements of seq (k = 0 gives <<>>)
LastK(seq, k) == SubSeq(seq, Len(seq) - Min(k, Len(seq)) + 1, Len(seq))

(***************************************************************************)
(* Bounds                                                                  *)
(***************************************************************************)
Duration == 7        \* EEGStream(duration), in half sample periods
MaxBatch == 4        \* longest batch passed to append
MaxTotal == 6        \* samples appended to the store over a run
MaxRaceTotal == 4    \* samples appended by the concurrent writer over a run
MaxSeconds == 9      \* largest get_window(seconds), in half sample periods

(***************************************************************************)
(* thebox/ble/protocol.py : constants                                      *)
(***************************************************************************)
CHANNEL_NAMES == <<"TP9", "AF7", "AF8", "TP10">>

Channels == {CHANNEL_NAMES[i] : i \in 1..Len(CHANNEL_NAMES)}

SAMPLE_RATE == 256

SAMPLES_PER_PACKET == 12

SCALE_NUM == 125

SCALE_DEN == 256

TimeDen == 2 * SAMPLE_RATE

\* int(seconds * SAMPLE_RATE) for seconds >= 0
IntSamples(seconds) == (seconds * SAMPLE_RATE) \div TimeDen

(***************************************************************************)
(* thebox/eeg/stream.py : EEGStream                                        *)
(***************************************************************************)
\* self.capacity = int(duration * SAMPLE_RATE)
capacity == IntSamples(duration)

Slots == 0 .. capacity - 1

\* buf[lo:hi] for 0 <= lo, hi <= capacity
Slice(buf, lo, hi) == [i \in 1 .. Max(hi - lo, 0) |-> buf[lo + i - 1]]

\* buf[lo:lo+len(seq)] = seq
SliceAssign(buf, lo, seq) ==
    [i \in DOMAIN buf |->
        IF lo <= i /\ i < lo + Len(seq) THEN seq[i - lo + 1] ELSE buf[i]]

\* EEGStream(duration = d)
EEGStream(d) ==
    /\ duration = d
    /\ _buffers = [c \in Channels |-> [i \in Slots |-> 0]]
    /\ _write_pos = [c \in Channels |-> 0]
    /\ _count = [c \in Channels |-> 0]
    /\ appended = [c \in Channels |-> <<>>]
    /\ window = <<>>
    /\ last_call = [op |-> "init"]

StoreInit == EEGStream(Duration)

\* n >= capacity: buf[:] = samples[-capacity:]
OverflowWrite(buf, smp) == SliceAssign(buf, 0, LastK(smp, capacity))

\* a wrap that restarts the batch at slot 0 instead of continuing it
MutWrapNoSplit(buf, pos, smp) ==
    LET first == capacity - pos
    IN  SliceAssign(SliceAssign(buf, pos, SubSeq(smp, 1, first)), 0, smp)

\* end > capacity: buf[pos:] = samples[:first]; buf[:n-first] = samples[first:]
WrapWrite(buf, pos, smp) ==
    LET first == capacity - pos
    IN  SliceAssign(SliceAssign(buf, pos, SubSeq(smp, 1, first)),
                    0, SubSeq(smp, first + 1, Len(smp)))

\* the buffer after append(channel, smp)
AppendBuf(buf, pos, smp) ==
    LET n == Len(smp)
        end == pos + n
    IN  IF n >= capacity THEN OverflowWrite(buf, smp)
        ELSE IF end <= capacity THEN SliceAssign(buf, pos, smp)
        ELSE WrapWrite(buf, pos, smp)

\* the write position after append(channel, smp)
AppendPos(pos, smp) ==
    IF Len(smp) >= capacity THEN 0 ELSE (pos + Len(smp)) % capacity

\* the count after append(channel, smp)
AppendCount(count, smp) ==
    IF Len(smp) >= capacity THEN capacity ELSE Min(count + Len(smp), capacity)

\* EEGStream.append as a relation on the store's fields
append(channel, smp) ==
    /\ _buffers' = [_buffers EXCEPT
                      ![channel] = AppendBuf(@, _write_pos[channel], smp)]
    /\ _write_pos' = [_write_pos EXCEPT ![channel] = AppendPos(@, smp)]
    /\ _count' = [_count EXCEPT ![channel] = AppendCount(@, smp)]
    /\ appended' = [appended EXCEPT ![channel] = @ \o smp]

\* get_window(channel) without seconds: seconds is None
NoSeconds == 0 - 1

\* n of get_window: min(int(seconds * SAMPLE_RATE), count), or count for None
WindowLen(count, seconds) ==
    IF seconds = NoSeconds THEN count ELSE Min(IntSamples(seconds), count)

\* the array get_window returns, from the fields it reads
WindowOf(buf, pos, count, seconds) ==
    IF count = 0 THEN <<>>
    ELSE LET n == WindowLen(count, seconds)
             start == (pos - n) % capacity
         IN  IF start < pos THEN Slice(buf, start, pos)
             ELSE Slice(buf, start, capacity) \o Slice(buf, 0, pos)

get_window(channel, seconds) ==
    WindowOf(_buffers[channel], _write_pos[channel], _count[channel], seconds)

sample_count(channel) == _count[channel]

\* sum(self._count.values())
total_samples ==
    _count["TP9"] + _count["AF7"] + _count["AF8"] + _count["TP10"]

\* a get_window that returns the slice itself when the window does not wrap
MutReturnView(channel, seconds) ==
    LET pos == _write_pos[channel]
        start == (pos - WindowLen(_count[channel], seconds)) % capacity
    IN  IF _count[channel] > 0 /\ start < pos
        THEN [base |-> channel, lo |-> start, hi |-> pos]
        ELSE [copy |-> get_window(channel, seconds)]

\* the array object get_window returns: buf[start:pos].copy(), the result of
\* np.concatenate or np.array([]), each a new array that owns its data
get_window_array(channel, seconds) == [copy |-> get_window(channel, seconds)]

\* what an array object holds now: its own data, or for a view the slots of
\* the ring it refers to
ArrayContents(array) ==
    IF "copy" \in DOMAIN array THEN array.copy
    ELSE Slice(_buffers[array.base], array.lo, array.hi)

TotalAppended ==
    Len(appended["TP9"]) + Len(appended["AF7"])
        + Len(appended["AF8"]) + Len(appended["TP10"])

ChannelIndex(channel) ==
    CHOOSE i \in 1..Len(CHANNEL_NAMES) : CHANNEL_NAMES[i] = channel

\* The store never inspects a sample's value, so the k-th sample appended to
\* a channel carries a value that names the channel and k, different from
\* every other sample's and from 0.0, the value of a slot never written.
SampleValue(channel, k) == Len(CHANNEL_NAMES) * k + ChannelIndex(channel) - 1

Batch(channel, n) ==
    [i \in 1..n |-> SampleValue(channel, Len(appended[channel]) + i)]

Seconds == (0 .. MaxSeconds) \cup {NoSeconds}

\* a caller appends a batch: stream.append(channel, batch)
AppendCall(channel, smp) ==
    /\ TotalAppended + Len(smp) <= MaxTotal
    /\ append(channel, smp)
    /\ last_call' = [op |-> "append", channel |-> channel]
    /\ UNCHANGED <<window, raceVars, decodeVars, busVars, ctlVars>>

\* a caller reads a window: window = stream.get_window(channel, seconds)
GetWindowCall(channel, seconds) ==
    /\ window' = get_window(channel, seconds)
    /\ result' = get_window_array(channel, seconds)
    /\ last_call' = [op |-> "get_window", channel |-> channel, seconds |-> seconds]
    /\ UNCHANGED <<_buffers, _write_pos, _count, appended, raceVars, decodeVars, busVars,
                   detVars, pipeVars, conn, _buffer, audio, hyst, built, stops>>

\* a caller asks for a count: stream.sample_count(channel)
SampleCountCall(channel) ==
    /\ last_call' = [op |-> "sample_count", channel |-> channel,
                     value |-> sample_count(channel)]
    /\ UNCHANGED <<_buffers, _write_pos, _count, appended, window, raceVars,
                   decodeVars, busVars, ctlVars>>

\* a caller asks for the total: stream.total_samples()
TotalSamplesCall ==
    /\ last_call' = [op |-> "total_samples", value |-> total_samples]
    /\ UNCHANGED <<_buffers, _write_pos, _count, appended, window, raceVars,
                   decodeVars, busVars, ctlVars>>

\* append on a store of capacity 0: line 38 assigns the n samples to an
\* empty array, which raises ValueError for n >= 2 and changes nothing
AppendRaises(channel, smp) ==
    /\ capacity = 0
    /\ Len(smp) >= 2
    /\ last_call' = [op |-> "append", channel |-> channel, raised |-> "ValueError"]
    /\ UNCHANGED <<_buffers, _write_pos, _count, appended, window, raceVars,
                   decodeVars, busVars, ctlVars>>

(***************************************************************************)
(* EEGStream.append and EEGStream.get_window, statement by statement, for  *)
(* a writer and a reader in different execution contexts.  The class holds *)
(* no lock; each Python statement is one step.                             *)
(***************************************************************************)
RaceChannel == "AF7"

Snapshot ==
    [buf |-> _buffers[RaceChannel], pos |-> _write_pos[RaceChannel],
     count |-> _count[RaceChannel]]

NoWriter == [pc |-> "idle", samples |-> <<>>, pos |-> 0]

NoReader == [pc |-> "idle", seconds |-> 0, count |-> 0, pos |-> 0]

RaceIdle ==
    /\ writer = NoWriter
    /\ reader = NoReader
    /\ completed = {Snapshot}

\* lines 32-34: buf, pos and n are read
W_Call(n) ==
    /\ writer.pc = "idle"
    /\ Len(appended[RaceChannel]) + n <= MaxRaceTotal
    /\ writer' = [pc |-> "write", samples |-> Batch(RaceChannel, n),
                  pos |-> _write_pos[RaceChannel]]
    /\ UNCHANGED <<storeVars, reader, completed, decodeVars, busVars, ctlVars>>

\* line 38, line 45 or line 48: the first slice assignment
W_Write ==
    /\ writer.pc = "write"
    /\ LET smp == writer.samples
           n == Len(smp)
           end == writer.pos + n
           first == capacity - writer.pos
       IN  IF n >= capacity
           THEN /\ _buffers' = [_buffers EXCEPT
                                  ![RaceChannel] = OverflowWrite(@, smp)]
                /\ writer' = [writer EXCEPT !.pc = "pos"]
           ELSE IF end <= capacity
           THEN /\ _buffers' = [_buffers EXCEPT
                                  ![RaceChannel] = SliceAssign(@, writer.pos, smp)]
                /\ writer' = [writer EXCEPT !.pc = "pos"]
           ELSE /\ _buffers' = [_buffers EXCEPT
                                  ![RaceChannel] =
                                      SliceAssign(@, writer.pos, SubSeq(smp, 1, first))]
                /\ writer' = [writer EXCEPT !.pc = "write2"]
    /\ UNCHANGED <<_write_pos, _count, appended, window, last_call, reader, completed,
                   decodeVars, busVars, ctlVars>>

\* line 49: buf[:n - first] = samples[first:]
W_Write2 ==
    /\ writer.pc = "write2"
    /\ LET smp == writer.samples
           first == capacity - writer.pos
       IN  _buffers' = [_buffers EXCEPT
                          ![RaceChannel] =
                              SliceAssign(@, 0, SubSeq(smp, first + 1, Len(smp)))]
    /\ writer' = [writer EXCEPT !.pc = "pos"]
    /\ UNCHANGED <<_write_pos, _count, appended, window, last_call, reader, completed,
                   decodeVars, busVars, ctlVars>>

\* line 39 or line 51: the write position is stored
W_Pos ==
    /\ writer.pc = "pos"
    /\ _write_pos' = [_write_pos EXCEPT
                        ![RaceChannel] = AppendPos(writer.pos, writer.samples)]
    /\ writer' = [writer EXCEPT !.pc = "count"]
    /\ UNCHANGED <<_buffers, _count, appended, window, last_call, reader, completed,
                   decodeVars, busVars, ctlVars>>

\* line 40 or line 52: the count is stored, and append returns
W_Count ==
    /\ writer.pc = "count"
    /\ _count' = [_count EXCEPT ![RaceChannel] = AppendCount(@, writer.samples)]
    /\ appended' = [appended EXCEPT ![RaceChannel] = @ \o writer.samples]
    /\ completed' = completed \cup
           {[buf |-> _buffers[RaceChannel], pos |-> _write_pos[RaceChannel],
             count |-> _count'[RaceChannel]]}
    /\ writer' = NoWriter
    /\ UNCHANGED <<_buffers, _write_pos, window, last_call, reader, decodeVars, busVars,
                   ctlVars>>

\* lines 59-61: count is read; an empty channel returns at once
R_Call(seconds) ==
    /\ reader.pc \in {"idle", "done"}
    /\ IF _count[RaceChannel] = 0
       THEN /\ window' = <<>>
            /\ reader' = [pc |-> "done", seconds |-> seconds, count |-> 0, pos |-> 0]
       ELSE /\ window' = window
            /\ reader' = [pc |-> "pos", seconds |-> seconds,
                          count |-> _count[RaceChannel], pos |-> 0]
    /\ UNCHANGED <<_buffers, _write_pos, _count, appended, last_call, writer, completed,
                   decodeVars, busVars, ctlVars>>

\* lines 63-69: n is computed and the write position is read
R_Pos ==
    /\ reader.pc = "pos"
    /\ reader' = [reader EXCEPT !.pc = "copy", !.pos = _write_pos[RaceChannel]]
    /\ UNCHANGED <<storeVars, writer, completed, decodeVars, busVars, ctlVars>>

\* lines 72-76: the slots are copied out of the buffer
R_Copy ==
    /\ reader.pc = "copy"
    /\ window' = WindowOf(_buffers[RaceChannel], reader.pos, reader.count,
                          reader.seconds)
    /\ reader' = [reader EXCEPT !.pc = "done"]
    /\ UNCHANGED <<_buffers, _write_pos, _count, appended, last_call, writer, completed,
                   decodeVars, busVars, ctlVars>>

\* the reader asks for at least one sample (or for everything), as every
\* caller in the repository does
RaceSeconds == {s \in Seconds : s = NoSeconds \/ IntSamples(s) >= 1}

RaceNext ==
    \/ \E n \in 0..MaxBatch : W_Call(n)
    \/ W_Write
    \/ W_Write2
    \/ W_Pos
    \/ W_Count
    \/ \E s \in RaceSeconds : R_Call(s)
    \/ R_Pos
    \/ R_Copy

(***************************************************************************)
(* thebox/ble/protocol.py : decode_packet                                  *)
(*                                                                         *)
(* bit_buffer is an unbounded Python int; it is kept as the sequence of    *)
(* the bits shifted into it, most significant first.                       *)
(***************************************************************************)
\* the 8 bits of a byte, most significant first
Bits8(byte) == [j \in 1..8 |-> (byte \div 2^(8 - j)) % 2]

RECURSIVE BitsToInt(_)
BitsToInt(bits) ==
    IF bits = <<>> THEN 0
    ELSE 2 * BitsToInt(SubSeq(bits, 1, Len(bits) - 1)) + bits[Len(bits)]

\* (bit_buffer << 8) | byte
ShiftInByte(bit_buffer, byte) == bit_buffer \o Bits8(byte)

\* a decoder that masks with 0xFF instead of 0xFFF
MutRawMask8(bit_buffer, bit_count) ==
    LET hi == Len(bit_buffer) - bit_count
    IN  BitsToInt(SubSeq(bit_buffer, Max(hi - 7, 1), hi))

\* (bit_buffer >> bit_count) & 0xFFF
RawSample(bit_buffer, bit_count) ==
    LET hi == Len(bit_buffer) - bit_count
    IN  BitsToInt(SubSeq(bit_buffer, Max(hi - 11, 1), hi))

\* raw * SCALE_FACTOR, in 1/SCALE_DEN microvolt
Scale(raw) == raw * SCALE_NUM

\* a drain loop that waits for more than 12 buffered bits
RECURSIVE MutDrainStrict(_, _, _)
MutDrainStrict(bit_buffer, bit_count, out) ==
    IF bit_count > 12
    THEN MutDrainStrict(bit_buffer, bit_count - 12,
                        out \o <<Scale(RawSample(bit_buffer, bit_count - 12))>>)
    ELSE [bit_count |-> bit_count, out |-> out]

\* while bit_count >= 12: ... samples.append(raw * SCALE_FACTOR)
RECURSIVE DrainSamples(_, _, _)
DrainSamples(bit_buffer, bit_count, out) ==
    IF bit_count >= 12
    THEN DrainSamples(bit_buffer, bit_count - 12,
                      out \o <<Scale(RawSample(bit_buffer, bit_count - 12))>>)
    ELSE [bit_count |-> bit_count, out |-> out]

\* for byte in bytes: the loop of decode_packet from byte i on
RECURSIVE DecodeLoop(_, _, _, _, _)
DecodeLoop(bytes, i, bit_buffer, bit_count, out) ==
    IF i > Len(bytes) THEN out
    ELSE LET buffer == ShiftInByte(bit_buffer, bytes[i])
             drained == DrainSamples(buffer, bit_count + 8, out)
         IN  DecodeLoop(bytes, i + 1, buffer, drained.bit_count, drained.out)

\* a decoder that skips one header byte only
MutPayloadFromByte1(pkt) == SubSeq(pkt, 2, Len(pkt))

\* packet[2:]
Payload(pkt) == SubSeq(pkt, 3, Len(pkt))

decode_packet(pkt) == DecodeLoop(Payload(pkt), 1, <<>>, 0, <<>>)

(***************************************************************************)
(* Frames handed to the decoder: a 2-byte header, then a 3-byte pattern    *)
(* repeated 6 times, with at most one byte of the payload overwritten.     *)
(***************************************************************************)
FRAME_LEN == 20

HeaderBytes == {0, 255}

PatternBytes == {0, 8, 128, 255}

PokeBytes == {165}

PatternFrame(h, p) ==
    [i \in 1..FRAME_LEN |-> IF i <= 2 THEN h[i] ELSE p[((i - 3) % 3) + 1]]

Poke(frame, i, b) == [frame EXCEPT ![i] = b]

PlainFrames ==
    {PatternFrame(h, p) : h \in [1..2 -> HeaderBytes], p \in [1..3 -> PatternBytes]}

Frames ==
    PlainFrames \cup {Poke(f, i, b) : f \in PlainFrames, i \in 3..FRAME_LEN, b \in PokeBytes}

\* samples = decode_packet(packet)
DecodeCall ==
    /\ samples = None
    /\ samples' = decode_packet(packet)
    /\ UNCHANGED <<packet, _callbacks, delivered, storeVars, raceVars, busVars, ctlVars>>

DecodeInit ==
    /\ packet \in Frames
    /\ samples = None
    /\ _callbacks = <<>>
    /\ delivered = <<>>

(***************************************************************************)
(* thebox/ble/connection.py : on_eeg and the notify callback, with         *)
(* Pipeline._eeg_callback (thebox/pipeline.py) as the registered callback. *)
(***************************************************************************)
MaxCallbacks == 2    \* on_eeg registrations over a run
MaxDelivered == 2    \* EEG callback invocations over a run

\* the channel's fields after stream.append(channel, smp)
AppendTo(st, smp) ==
    [buf |-> AppendBuf(st.buf, st.pos, smp),
     pos |-> AppendPos(st.pos, smp),
     count |-> AppendCount(st.count, smp)]

\* for cb in self._callbacks: cb(channel_name, samples, ts), from callback i on
RECURSIVE RunCallbacks(_, _, _)
RunCallbacks(st, smp, i) ==
    IF i > Len(_callbacks) THEN st
    ELSE RunCallbacks(AppendTo(st, smp), smp, i + 1)

RECURSIVE Repeat(_, _)
Repeat(seq, k) == IF k = 0 THEN <<>> ELSE seq \o Repeat(seq, k - 1)

\* conn.on_eeg(self._eeg_callback)
on_eeg ==
    /\ Len(_callbacks) < MaxCallbacks
    /\ _callbacks' = _callbacks \o <<"_eeg_callback">>
    /\ UNCHANGED <<packet, samples, delivered, storeVars, raceVars, busVars, ctlVars>>

\* the transport calls the callback made by _make_notify_callback(channel)
NotifyCallback(channel, data) ==
    /\ Len(delivered) + Len(_callbacks) <= MaxDelivered
    /\ packet' = data
    /\ samples' = decode_packet(data)
    /\ LET st == RunCallbacks([buf |-> _buffers[channel], pos |-> _write_pos[channel],
                               count |-> _count[channel]], samples', 1)
       IN  /\ _buffers' = [_buffers EXCEPT ![channel] = st.buf]
           /\ _write_pos' = [_write_pos EXCEPT ![channel] = st.pos]
           /\ _count' = [_count EXCEPT ![channel] = st.count]
    /\ appended' = [appended EXCEPT
                      ![channel] = @ \o Repeat(samples', Len(_callbacks))]
    /\ delivered' = delivered \o
           [i \in 1..Len(_callbacks) |->
               [channel |-> channel, samples |-> samples', frame_len |-> Len(data)]]
    /\ last_call' = IF _callbacks = <<>> THEN last_call
                    ELSE [op |-> "append", channel |-> channel]
    /\ UNCHANGED <<window, _callbacks, raceVars, busVars, ctlVars>>

\* frames the transport delivers: prefixes of a frame of constant value 0x800
NotifyLens == {0, 2, 3, 4, 19, 20}

NotifyFrames == {SubSeq(PatternFrame(<<0, 0>>, <<128, 8, 0>>), 1, n) : n \in NotifyLens}

NotifyNext ==
    \/ on_eeg
    \/ \E c \in Channels, f \in NotifyFrames : NotifyCallback(c, f)

DecodeIdle ==
    /\ packet = <<>>
    /\ samples = None
    /\ _callbacks = <<>>
    /\ delivered = <<>>

(***************************************************************************)
(* thebox/events/bus.py : EventBus, and the publishing loop of             *)
(* Pipeline.start (thebox/pipeline.py).  Everything runs in the control    *)
(* task; a publish call is followed handler by handler.                    *)
(***************************************************************************)
MaxSubscribe == 2    \* subscribe calls after start() over a run
MaxPublished == 2    \* publish calls over a run
MaxTickEvents == 2   \* events the detectors return in one tick

\* thebox/events/base.py : EventType
EventTypes == {"BLINK", "CLENCH", "ALPHA_BURST_START", "ALPHA_BURST_END"}

\* keys of _handlers: an event type, or None for all events
Keys == EventTypes \cup {None}

\* the pipeline's own handler and two subscribers' handlers; a call of
\* "faulty" either returns or raises
HandlerIds == {"_handle_event", "listener", "faulty"}

MayRaise == {"faulty"}

NoDispatch == [pc |-> "idle", event |-> [type |-> None, seq |-> 0], i |-> 0]

BusIdle ==
    /\ _handlers = [k \in Keys |-> <<>>]
    /\ dispatch = NoDispatch
    /\ pending = <<>>
    /\ tick_events = <<>>
    /\ _running = FALSE
    /\ log = <<>>
    /\ published = <<>>
    /\ subscriptions = <<>>

\* Pipeline.start up to the loop: bus.subscribe(None, self._handle_event)
BusInit ==
    /\ _handlers = [k \in Keys |-> IF k = None THEN <<"_handle_event">> ELSE <<>>]
    /\ dispatch = NoDispatch
    /\ pending = <<>>
    /\ tick_events = <<>>
    /\ _running = TRUE
    /\ log = <<>>
    /\ published = <<>>
    /\ subscriptions = <<[handler |-> "_handle_event", key |-> None, at |-> 0]>>

\* self._handlers.setdefault(event_type, []).append(handler)
subscribe(event_type, handler) ==
    /\ dispatch.pc = "idle"
    /\ Len(subscriptions) <= MaxSubscribe
    /\ _handlers' = [_handlers EXCEPT ![event_type] = @ \o <<handler>>]
    /\ subscriptions' = subscriptions \o
           <<[handler |-> handler, key |-> event_type, at |-> Len(published)]>>
    /\ UNCHANGED <<dispatch, pending, tick_events, _running, log, published,
                   storeVars, raceVars, decodeVars, ctlVars>>

\* lines 150-151: the detectors return the events of this tick
TickDetect(types) ==
    /\ _running
    /\ dispatch.pc = "idle"
    /\ pending = <<>>
    /\ Len(published) + Len(types) <= MaxPublished
    /\ pending' = [i \in 1..Len(types) |->
                      [type |-> types[i], seq |-> Len(published) + i]]
    /\ tick_events' = pending'
    /\ UNCHANGED <<_handlers, dispatch, _running, log, published, subscriptions,
                   storeVars, raceVars, decodeVars, ctlVars>>

\* line 152: self.bus.publish(event) is called
PublishCall ==
    /\ dispatch.pc = "idle"
    /\ pending # <<>>
    /\ dispatch' = [pc |-> "typed", event |-> Head(pending), i |-> 1]
    /\ pending' = Tail(pending)
    /\ published' = published \o
           <<[event |-> Head(pending), typed |-> _handlers[Head(pending).type],
              wildcard |-> _handlers[None]]>>
    /\ UNCHANGED <<_handlers, tick_events, _running, log, subscriptions,
                   storeVars, raceVars, decodeVars, ctlVars>>

\* the list the running loop of publish iterates over
DispatchList ==
    IF dispatch.pc = "typed" THEN _handlers[dispatch.event.type] ELSE _handlers[None]

\* a handler raised: the exception leaves publish and the loop of start(),
\* whose finally clause stops the pipeline
Propagate ==
    /\ dispatch' = NoDispatch
    /\ pending' = <<>>
    /\ _running' = FALSE

\* lines 35 and 38: handler(event) is called, and returns
HandlerReturns ==
    /\ dispatch.pc \in {"typed", "wildcard"}
    /\ dispatch.i <= Len(DispatchList)
    /\ log' = log \o <<[handler |-> DispatchList[dispatch.i],
                         event |-> dispatch.event, outcome |-> "returned"]>>
    /\ dispatch' = [dispatch EXCEPT !.i = @ + 1]
    /\ UNCHANGED <<_handlers, pending, tick_events, _running, published, subscriptions,
                   storeVars, raceVars, decodeVars, ctlVars>>

\* lines 35 and 38: handler(event) is called, and raises
HandlerRaises ==
    /\ dispatch.pc \in {"typed", "wildcard"}
    /\ dispatch.i <= Len(DispatchList)
    /\ DispatchList[dispatch.i] \in MayRaise
    /\ log' = log \o <<[handler |-> DispatchList[dispatch.i],
                         event |-> dispatch.event, outcome |-> "raised"]>>
    /\ Propagate
    /\ UNCHANGED <<_handlers, tick_events, published, subscriptions,
                   storeVars, raceVars, decodeVars, ctlVars>>

\* line 34 is exhausted: the loop over the wildcard handlers starts
TypedDone ==
    /\ dispatch.pc = "typed"
    /\ dispatch.i > Len(DispatchList)
    /\ dispatch' = [dispatch EXCEPT !.pc = "wildcard", !.i = 1]
    /\ UNCHANGED <<_handlers, pending, tick_events, _running, log, published,
                   subscriptions, storeVars, raceVars, decodeVars, ctlVars>>

\* line 37 is exhausted: publish returns
PublishReturn ==
    /\ dispatch.pc = "wildcard"
    /\ dispatch.i > Len(DispatchList)
    /\ dispatch' = NoDispatch
    /\ UNCHANGED <<_handlers, pending, tick_events, _running, log, published,
                   subscriptions, storeVars, raceVars, decodeVars, ctlVars>>

TickTypeLists == UNION {[1..n -> EventTypes] : n \in 1..MaxTickEvents}

BusNext ==
    \/ \E k \in Keys, h \in HandlerIds \ {"_handle_event"} : subscribe(k, h)
    \/ \E ts \in TickTypeLists : TickDetect(ts)
    \/ PublishCall
    \/ HandlerReturns
    \/ HandlerRaises
    \/ TypedDone
    \/ PublishReturn

(***************************************************************************)
(* thebox/events : the detectors of the pipeline, called against the store *)
(* the EEG callback fills.  A reading of the clock is an integer number of *)
(* milliseconds; a window length stays in half sample periods.             *)
(***************************************************************************)
DetDuration == 128   \* duration of the detectors' store, in half sample periods
MaxFeeds == 2        \* batches appended to one channel over a run
MaxNow == 1000       \* latest reading of the clock, in milliseconds

\* Event(type, timestamp, value, metadata)
Event(type, timestamp, value, metadata) ==
    [type |-> type, timestamp |-> timestamp, value |-> value, metadata |-> metadata]

NoCall == [detector |-> None]

\* the detectors as Pipeline.__init__ constructs them
DetectorsInit ==
    /\ now = 0
    /\ call = NoCall
    /\ emitted = <<>>
    /\ _last_blink = 0
    /\ _last_clench = 0
    /\ _zi = [c \in {"TP9", "TP10"} |-> "zero"]
    /\ _baseline_values = <<>>
    /\ _in_burst = FALSE
    /\ _last_update = 0
    /\ fed = [c \in Channels |-> 0]

\* no detector is constructed
DetIdle == DetectorsInit /\ detectors = {}

\* blink_threshold = 200.0 uV
blink_threshold == 200 * SCALE_DEN

\* blink_window = 0.2 s, rounded down to the time unit: 51 samples either way
blink_window == (2 * TimeDen) \div 10

\* blink_debounce = 0.3 s
blink_debounce == 300

\* len(af7) < 10
MIN_SAMPLES == 10

\* float(np.ptp(a)) for a non-empty array
Ptp(a) ==
    LET vals == {a[i] : i \in 1..Len(a)}
        hi == CHOOSE x \in vals : \A y \in vals : y <= x
        lo == CHOOSE x \in vals : \A y \in vals : x <= y
    IN  hi - lo

\* a detector that also fires when the peak equals the threshold
MutBlinkAtThreshold(last, t, af7, af8) ==
    IF t - last < blink_debounce THEN <<>>
    ELSE IF Len(af7) < MIN_SAMPLES \/ Len(af8) < MIN_SAMPLES THEN <<>>
    ELSE LET peak == Max(Ptp(af7), Ptp(af8))
         IN  IF peak >= blink_threshold
             THEN <<Event("BLINK", t, peak, {})>>
             ELSE <<>>

\* a detector without lines 31-32
MutBlinkNoDebounce(last, t, af7, af8) ==
    IF Len(af7) < MIN_SAMPLES \/ Len(af8) < MIN_SAMPLES THEN <<>>
    ELSE LET peak == Max(Ptp(af7), Ptp(af8))
         IN  IF peak > blink_threshold
             THEN <<Event("BLINK", t, peak, {})>>
             ELSE <<>>

\* the list BlinkDetector.detect returns, from _last_blink, now and the two
\* windows it reads
blink_detect(last, t, af7, af8) ==
    IF t - last < blink_debounce THEN <<>>
    ELSE IF Len(af7) < MIN_SAMPLES \/ Len(af8) < MIN_SAMPLES THEN <<>>
    ELSE LET peak == Max(Ptp(af7), Ptp(af8))
         IN  IF peak > blink_threshold
             THEN <<Event("BLINK", t, peak, {})>>
             ELSE <<>>

\* events = BlinkDetector.detect(stream, t); line 45 assigns _last_blink
\* exactly when line 46 returns the event
BlinkDetectCall(t) ==
    /\ "blink" \in detectors
    /\ now <= t
    /\ t <= MaxNow
    /\ now' = t
    /\ LET events == blink_detect(_last_blink, t, get_window("AF7", blink_window),
                                  get_window("AF8", blink_window))
       IN  /\ call' = [detector |-> "blink", now |-> t, last |-> _last_blink,
                       events |-> events]
           /\ emitted' = emitted \o events
           /\ _last_blink' = IF Len(events) > 0 THEN t ELSE _last_blink
    /\ UNCHANGED <<duration, _last_clench, _zi, _baseline_values, _in_burst,
                   _last_update, fed, detectors,
                   storeVars, raceVars, decodeVars, busVars, pipeVars, ioVars>>

\* Pipeline._eeg_callback: self.stream.append(channel, samples)
_eeg_callback(channel, smp) ==
    /\ fed[channel] < MaxFeeds
    /\ fed' = [fed EXCEPT ![channel] = @ + 1]
    /\ append(channel, smp)
    /\ last_call' = [op |-> "append", channel |-> channel]
    /\ call' = NoCall
    /\ UNCHANGED <<window, duration, now, emitted, _last_blink, _last_clench, _zi,
                   _baseline_values, _in_burst, _last_update, detectors,
                   raceVars, decodeVars, busVars, pipeVars, ioVars>>

\* n samples of a flat signal
Calm(n) == [i \in 1..n |-> 0]

(***************************************************************************)
(* thebox/events/clench.py : ClenchDetector.  The band-pass filter is      *)
(* linear: with its delay memory at zero an all-zero chunk gives an        *)
(* all-zero output and leaves the memory at zero; of any other output only *)
(* its RMS is kept, an input of the call.                                  *)
(***************************************************************************)
\* clench_threshold = 30.0 uV
clench_threshold == 30 * SCALE_DEN

\* clench_window = 0.5 s
clench_window == TimeDen \div 2

\* clench_debounce = 0.5 s
clench_debounce == 500

\* the RMS a filtered window can have: none, at and just above the threshold
RmsValues == {0, clench_threshold, clench_threshold + 1}

\* StreamingBandpass.process(chunk) returns zeros and keeps self._zi at zero
Silent(zi, chunk) == zi = "zero" /\ \A i \in 1..Len(chunk) : chunk[i] = 0

\* lines 32-39 let the call reach the filters
ClenchFilters(last, t, tp9, tp10) ==
    /\ t - last >= clench_debounce
    /\ Len(tp9) >= MIN_SAMPLES
    /\ Len(tp10) >= MIN_SAMPLES

\* a detector that ignores TP10
MutClenchOneSided(last, t, tp9, tp10, rms9, rms10) ==
    IF ~ClenchFilters(last, t, tp9, tp10) THEN <<>>
    ELSE IF rms9 > clench_threshold
         THEN <<Event("CLENCH", t, rms9, {})>>
         ELSE <<>>

\* the list ClenchDetector.detect returns, from _last_clench, now, the two
\* windows it reads and the RMS of their filtered copies
clench_detect(last, t, tp9, tp10, rms9, rms10) ==
    IF ~ClenchFilters(last, t, tp9, tp10) THEN <<>>
    ELSE LET rms == Max(rms9, rms10)
         IN  IF rms > clench_threshold
             THEN <<Event("CLENCH", t, rms, {})>>
             ELSE <<>>

\* events = ClenchDetector.detect(stream, t); line 50 assigns _last_clench
\* exactly when line 51 returns the event
ClenchDetectCall(t, rms9, rms10) ==
    /\ "clench" \in detectors
    /\ now <= t
    /\ t <= MaxNow
    /\ now' = t
    /\ LET tp9 == get_window("TP9", clench_window)
           tp10 == get_window("TP10", clench_window)
           filters == ClenchFilters(_last_clench, t, tp9, tp10)
           events == clench_detect(_last_clench, t, tp9, tp10, rms9, rms10)
       IN  /\ IF filters
              THEN /\ Silent(_zi["TP9"], tp9) => rms9 = 0
                   /\ Silent(_zi["TP10"], tp10) => rms10 = 0
              ELSE rms9 = 0 /\ rms10 = 0
           /\ _zi' = IF ~filters THEN _zi
                     ELSE [c \in DOMAIN _zi |->
                              IF Silent(_zi[c], get_window(c, clench_window))
                              THEN "zero" ELSE "excited"]
           /\ call' = [detector |-> "clench", now |-> t, last |-> _last_clench,
                       events |-> events, filters |-> filters,
                       rms9 |-> rms9, rms10 |-> rms10]
           /\ emitted' = emitted \o events
           /\ _last_clench' = IF Len(events) > 0 THEN t ELSE _last_clench
    /\ UNCHANGED <<duration, _last_blink, _baseline_values, _in_burst,
                   _last_update, fed, detectors,
                   storeVars, raceVars, decodeVars, busVars, pipeVars, ioVars>>

\* the channels a detector reads
Reads(d) == IF d = "blink" THEN {"AF7", "AF8"} ELSE {"TP9", "TP10"}

Debounce(d) == IF d = "blink" THEN blink_debounce ELSE clench_debounce

\* the batches fed to a channel: flat stretches, and one sample at or just
\* above the blink threshold
Feeds(channel) ==
    {Calm(1), Calm(MIN_SAMPLES - 1), <<blink_threshold + 1>>}
        \cup (IF channel = "AF7"
              THEN {Calm(IntSamples(blink_window)), <<blink_threshold>>}
              ELSE {})

\* the time that passes between two readings of the clock
ClockSteps(d) == {0, Debounce(d) \div 2, Debounce(d)}

DetectNext ==
    \/ \E d \in detectors : \E c \in Reads(d) : \E smp \in Feeds(c) :
           _eeg_callback(c, smp)
    \/ \E d \in ClockSteps("blink") : BlinkDetectCall(now + d)
    \/ \E d \in ClockSteps("clench") : \E rms9, rms10 \in RmsValues :
           ClenchDetectCall(now + d, rms9, rms10)

(***************************************************************************)
(* thebox/events/alpha.py : AlphaBurstDetector.  The two windows it reads  *)
(* enter by their lengths and by the alpha power Welch's method finds in   *)
(* them, inputs of the call.  With the power of a channel in some unit u,  *)
(* alpha_power = (p7 + p8) / 2 is kept in u/2 and the median of the        *)
(* history in u/4, so that both stay integers.                             *)
(***************************************************************************)
BaselineSeconds == 2500  \* AlphaBurstDetector(baseline_seconds), in milliseconds
MaxAlphaNow == 3000      \* latest reading of the clock of the alpha detector

\* alpha_burst_ratio = 1.5, as a fraction
ratio_threshold == [num |-> 3, den |-> 2]

\* update_interval = 0.5 s
update_interval == 500

\* len(af7) < 128
MIN_ALPHA_SAMPLES == 128

\* deque(maxlen = int(baseline_seconds / update_interval))
maxlen == BaselineSeconds \div update_interval

\* compute_band_powers(data, bands=[ALPHA])["Alpha"]: 0.0 below one second
\* of data, else the power p Welch's method finds
compute_band_powers(len, p) == IF len < SAMPLE_RATE THEN 0 ELSE p

\* a history that keeps every value
MutDequeUnbounded(dq, x) == dq \o <<x>>

\* self._baseline_values.append(alpha_power) on a deque of maxlen entries
DequeAppend(dq, x) == LastK(dq \o <<x>>, maxlen)

\* np.median(h) for a non-empty list h, in half units of its entries
Median(h) ==
    LET n == Len(h)
        vals == {h[i] : i \in 1..n}
        below(x) == Cardinality({i \in 1..n : h[i] < x})
        upto(x) == Cardinality({i \in 1..n : h[i] <= x})
        kth(k) == CHOOSE x \in vals : below(x) < k /\ k <= upto(x)
    IN  IF n % 2 = 1 THEN 2 * kth((n + 1) \div 2)
        ELSE kth(n \div 2) + kth(n \div 2 + 1)

\* a state machine that also starts a burst at the entry threshold
MutStartAtThreshold(in_burst, alpha_power, baseline) ==
    IF ~in_burst /\ 2 * alpha_power * ratio_threshold.den
                       >= ratio_threshold.num * baseline
    THEN "ALPHA_BURST_START"
    ELSE IF in_burst /\ 2 * alpha_power < baseline THEN "ALPHA_BURST_END"
    ELSE None

\* a state machine that ends a burst as soon as the ratio is below R
MutNoHysteresis(in_burst, alpha_power, baseline) ==
    IF ~in_burst /\ 2 * alpha_power * ratio_threshold.den
                       > ratio_threshold.num * baseline
    THEN "ALPHA_BURST_START"
    ELSE IF in_burst /\ 2 * alpha_power * ratio_threshold.den
                            < ratio_threshold.num * baseline
    THEN "ALPHA_BURST_END"
    ELSE None

\* a state machine that starts a burst whatever _in_burst is
MutStartInBurst(in_burst, alpha_power, baseline) ==
    IF 2 * alpha_power * ratio_threshold.den > ratio_threshold.num * baseline
    THEN "ALPHA_BURST_START"
    ELSE IF in_burst /\ 2 * alpha_power < baseline THEN "ALPHA_BURST_END"
    ELSE None

\* lines 66-88: the event the state machine emits, or None, with
\* ratio = alpha_power / baseline = 2 * alpha_power [u/2] / baseline [u/4]
Transition(in_burst, alpha_power, baseline) ==
    IF ~in_burst /\ 2 * alpha_power * ratio_threshold.den
                       > ratio_threshold.num * baseline
    THEN "ALPHA_BURST_START"
    ELSE IF in_burst /\ 2 * alpha_power < baseline THEN "ALPHA_BURST_END"
    ELSE None

\* an early return that stamps the time of the call
MutSkipStamps(t) ==
    /\ "alpha" \in detectors
    /\ now <= t
    /\ t <= MaxAlphaNow
    /\ t - _last_update < update_interval
    /\ now' = t
    /\ _last_update' = t
    /\ call' = [detector |-> "alpha", now |-> t, last |-> _last_update,
                in_burst |-> _in_burst, updated |-> FALSE, short |-> FALSE,
                alpha_power |-> 0, held |-> Len(_baseline_values),
                events |-> <<>>]
    /\ UNCHANGED <<duration, emitted, _last_blink, _last_clench, _zi,
                   _baseline_values, _in_burst, fed, detectors,
                   storeVars, raceVars, decodeVars, busVars, pipeVars, ioVars>>

\* lines 41-42: a call made before the update interval has passed
AlphaSkip(t) ==
    /\ "alpha" \in detectors
    /\ now <= t
    /\ t <= MaxAlphaNow
    /\ t - _last_update < update_interval
    /\ now' = t
    /\ call' = [detector |-> "alpha", now |-> t, last |-> _last_update,
                in_burst |-> _in_burst, updated |-> FALSE, short |-> FALSE,
                alpha_power |-> 0, held |-> Len(_baseline_values),
                events |-> <<>>]
    /\ UNCHANGED <<duration, emitted, _last_blink, _last_clench, _zi,
                   _baseline_values, _in_burst, _last_update, fed, detectors,
                   storeVars, raceVars, decodeVars, busVars, pipeVars, ioVars>>

\* lines 43-90: an update, on windows of len7 and len8 samples in which
\* Welch's method finds the alpha powers p7 and p8
AlphaUpdate(t, len7, len8, p7, p8) ==
    /\ "alpha" \in detectors
    /\ now <= t
    /\ t <= MaxAlphaNow
    /\ t - _last_update >= update_interval
    /\ now' = t
    /\ _last_update' = t
    /\ LET alpha_power == compute_band_powers(len7, p7)
                              + compute_band_powers(len8, p8)
           short == len7 < MIN_ALPHA_SAMPLES \/ len8 < MIN_ALPHA_SAMPLES
           history == IF short THEN _baseline_values
                      ELSE DequeAppend(_baseline_values, alpha_power)
           baseline == IF Len(history) > 0 THEN Median(history) ELSE 0
           type == IF short \/ Len(history) < 4 \/ baseline <= 0 THEN None
                   ELSE Transition(_in_burst, alpha_power, baseline)
           events ==
               IF type = None THEN <<>>
               ELSE <<Event(type, t, [num |-> 2 * alpha_power, den |-> baseline],
                            {<<"alpha_power", alpha_power>>,
                             <<"baseline", baseline>>})>>
       IN  /\ _baseline_values' = history
           /\ _in_burst' = IF type = "ALPHA_BURST_START" THEN TRUE
                           ELSE IF type = "ALPHA_BURST_END" THEN FALSE
                           ELSE _in_burst
           /\ emitted' = emitted \o events
           /\ call' = [detector |-> "alpha", now |-> t, last |-> _last_update,
                       in_burst |-> _in_burst, updated |-> TRUE, short |-> short,
                       alpha_power |-> IF short THEN 0 ELSE alpha_power,
                       held |-> Len(_baseline_values), events |-> events]
    /\ UNCHANGED <<duration, _last_blink, _last_clench, _zi, fed, detectors,
                   storeVars, raceVars, decodeVars, busVars, pipeVars, ioVars>>

\* the lengths of the AF7 and AF8 windows, around the limits 128 and one second
AlphaLens ==
    {<<MIN_ALPHA_SAMPLES - 1, SAMPLE_RATE>>, <<SAMPLE_RATE, MIN_ALPHA_SAMPLES - 1>>,
     <<MIN_ALPHA_SAMPLES, SAMPLE_RATE>>, <<SAMPLE_RATE, SAMPLE_RATE>>}

\* the alpha powers Welch's method finds in the AF7 and AF8 windows
AlphaPowers == {<<0, 0>>, <<2, 0>>, <<2, 2>>, <<2, 4>>}

AlphaNext ==
    \/ \E d \in {update_interval \div 2} : AlphaSkip(now + d)
    \/ \E d \in {update_interval \div 2, update_interval} :
       \E len \in AlphaLens, p \in AlphaPowers :
           /\ (len[1] < MIN_ALPHA_SAMPLES \/ len[2] < MIN_ALPHA_SAMPLES)
                  => p = <<0, 0>>
           /\ AlphaUpdate(now + d, len[1], len[2], p[1], p[2])

(***************************************************************************)
(* thebox/pipeline.py : Pipeline.start, statement by statement, with the   *)
(* parameter mapper and Pipeline.stop.  A float of the parameter record is *)
(* an exact fraction [num, den].  What a detector returns in a tick, and   *)
(* the length and band powers of the window the mapper reads, are inputs   *)
(* of the step.  The coroutine yields only while it awaits connect() and   *)
(* asyncio.sleep(): a stop request runs only there.                        *)
(***************************************************************************)
MaxTicks == 2        \* control ticks begun over a run

RECURSIVE Gcd(_, _)
Gcd(a, b) == IF b = 0 THEN a ELSE Gcd(b, a % b)

\* the float n / d, for d > 0
Frac(n, d) == [num |-> n \div Gcd(n, d), den |-> d \div Gcd(n, d)]

\* x <= y
FLeq(x, y) == x.num * y.den <= y.num * x.den

\* np.clip(x, lo, hi)
clip(x, lo, hi) == IF FLeq(x, lo) THEN lo ELSE IF FLeq(hi, x) THEN hi ELSE x

\* blink_decay = 0.2 s and clench_decay = 0.3 s, in milliseconds
blink_decay == 200

clench_decay == 300

\* SoundParameters()
SoundParameters ==
    [alpha |-> Frac(0, 1), beta |-> Frac(0, 1), theta |-> Frac(0, 1),
     delta |-> Frac(0, 1), gamma |-> Frac(0, 1),
     amplitude |-> Frac(3, 10), base_frequency |-> Frac(220, 1),
     brightness |-> Frac(1, 10), noise_gain |-> Frac(1, 20),
     blink_trigger |-> Frac(0, 1), clench_trigger |-> Frac(0, 1),
     alpha_state |-> FALSE]

\* a handler that also clears the clench trigger on a blink
MutHandleTwoFields(p, type) ==
    IF type = "BLINK"
    THEN [p EXCEPT !.blink_trigger = Frac(1, 1), !.clench_trigger = Frac(0, 1)]
    ELSE IF type = "CLENCH" THEN [p EXCEPT !.clench_trigger = Frac(1, 1)]
    ELSE IF type = "ALPHA_BURST_START" THEN [p EXCEPT !.alpha_state = TRUE]
    ELSE IF type = "ALPHA_BURST_END" THEN [p EXCEPT !.alpha_state = FALSE]
    ELSE p

\* the record after Pipeline._handle_event(event), event.type = type
_handle_event(p, type) ==
    IF type = "BLINK" THEN [p EXCEPT !.blink_trigger = Frac(1, 1)]
    ELSE IF type = "CLENCH" THEN [p EXCEPT !.clench_trigger = Frac(1, 1)]
    ELSE IF type = "ALPHA_BURST_START" THEN [p EXCEPT !.alpha_state = TRUE]
    ELSE IF type = "ALPHA_BURST_END" THEN [p EXCEPT !.alpha_state = FALSE]
    ELSE p

\* normalize_band_powers(powers)[band], powers = <<Delta, Theta, Alpha, Beta, Gamma>>
normalize_band_powers(powers, band) ==
    LET total == powers[1] + powers[2] + powers[3] + powers[4] + powers[5]
    IN  IF total = 0 THEN Frac(0, 1) ELSE Frac(powers[band], total)

\* the record after Pipeline._update_sound_params(), the AF7 window holding
\* len samples with the band powers `powers`, and range = (freq_lo, freq_hi)
\* a mapping that moves the amplitude half way to its target on each call
MutUpdateSmoothing(p, len, powers, range) ==
    IF len < SAMPLE_RATE THEN p
    ELSE LET alpha == normalize_band_powers(powers, 3)
             target == clip(Frac(alpha.den + 8 * alpha.num, 10 * alpha.den),
                            Frac(1, 20), Frac(9, 10))
         IN  [p EXCEPT
                !.alpha = alpha,
                !.amplitude =
                    Frac(p.amplitude.num * target.den + target.num * p.amplitude.den,
                         2 * p.amplitude.den * target.den)]

_update_sound_params(p, len, powers, range) ==
    IF len < SAMPLE_RATE THEN p
    ELSE LET delta == normalize_band_powers(powers, 1)
             theta == normalize_band_powers(powers, 2)
             alpha == normalize_band_powers(powers, 3)
             beta == normalize_band_powers(powers, 4)
             gamma == normalize_band_powers(powers, 5)
             \* max(alpha, 0.01)
             floor == IF FLeq(alpha, Frac(1, 100)) THEN Frac(1, 100) ELSE alpha
             \* beta / max(alpha, 0.01)
             beta_alpha == Frac(beta.num * floor.den, beta.den * floor.num)
             \* np.clip(beta_alpha / 3.0, 0.0, 1.0)
             pitch == clip(Frac(beta_alpha.num, 3 * beta_alpha.den),
                           Frac(0, 1), Frac(1, 1))
         IN  [p EXCEPT
                !.alpha = alpha, !.beta = beta, !.theta = theta,
                !.delta = delta, !.gamma = gamma,
                \* np.clip(0.1 + alpha * 0.8, 0.05, 0.9)
                !.amplitude = clip(Frac(alpha.den + 8 * alpha.num, 10 * alpha.den),
                                   Frac(1, 20), Frac(9, 10)),
                \* freq_lo + pitch * (freq_hi - freq_lo)
                !.base_frequency =
                    Frac(range[1] * pitch.den + pitch.num * (range[2] - range[1]),
                         pitch.den),
                \* np.clip(1.0 - theta * 2.0, 0.0, 1.0)
                !.brightness = clip(Frac(theta.den - 2 * theta.num, theta.den),
                                    Frac(0, 1), Frac(1, 1)),
                \* np.clip(gamma * 3.0, 0.0, 1.0)
                !.noise_gain = clip(Frac(3 * gamma.num, gamma.den),
                                    Frac(0, 1), Frac(1, 1))]

\* a decay that subtracts d / decay from the trigger
MutDecaySubtract(trigger, d, decay) ==
    IF trigger.num = 0 THEN trigger
    ELSE LET t == Frac(Max(0, trigger.num * decay - d * trigger.den),
                       trigger.den * decay)
         IN  IF 100 * t.num < t.den THEN Frac(0, 1) ELSE t

\* a decay that stops at 0.01 instead of 0.0
MutDecayFloor(trigger, d, decay) ==
    IF trigger.num = 0 THEN trigger
    ELSE LET t == Frac(trigger.num * Max(0, decay - d), trigger.den * decay)
         IN  IF 100 * t.num < t.den THEN Frac(1, 100) ELSE t

\* a trigger after lines 121-124 (126-129): trigger *= max(0, 1 - d / decay),
\* then 0.0 below 0.01
Decayed(trigger, d, decay) ==
    IF trigger.num = 0 THEN trigger
    ELSE LET t == Frac(trigger.num * Max(0, decay - d), trigger.den * decay)
         IN  IF 100 * t.num < t.den THEN Frac(0, 1) ELSE t

\* the record after Pipeline._decay_triggers(d)
_decay_triggers(p, d) ==
    [p EXCEPT !.blink_trigger = Decayed(@, d, blink_decay),
              !.clench_trigger = Decayed(@, d, clench_decay)]

NoStop == 0 - 1

\* Pipeline(config) with config.base_frequency_range = range; start not called
Pipeline(range) ==
    /\ params = SoundParameters
    /\ pc = "new"
    /\ last_time = 0
    /\ dt = 0
    /\ _stream = FALSE
    /\ _client = FALSE
    /\ base_frequency_range = range
    /\ trace = <<>>
    /\ starts = <<>>
    /\ stop_at = NoStop

\* base_frequency_range = (110.0, 880.0)
PipeIdle == Pipeline(<<110, 880>>)

\* the control ticks begun so far
Ticks == IF Len(starts) = 0 THEN 0 ELSE Len(starts) - 1

\* lines 133-136: on_eeg, subscribe, and connect() is awaited
start ==
    /\ pc = "new"
    /\ pc' = "connecting"
    /\ _callbacks' = _callbacks \o <<"_eeg_callback">>
    /\ _handlers' = [_handlers EXCEPT ![None] = @ \o <<"_handle_event">>]
    /\ UNCHANGED <<params, last_time, dt, _stream, _client, base_frequency_range,
                   trace, starts, stop_at, packet, samples, delivered, dispatch,
                   pending, tick_events, _running, log, published, subscriptions,
                   storeVars, raceVars, detVars, ioVars>>

\* the connection after a connect() whose first attempt succeeded
Connected ==
    [pc |-> "returned", attempt |-> 1, client |-> 1, _connected |-> TRUE,
     is_connected |-> TRUE, notified |-> CHANNEL_NAMES, resumed |-> TRUE,
     steps |-> <<[step |-> "succeeded", attempt |-> 1]>>]

\* lines 136-143: connect() returns; output.start(); self._running = True;
\* last_time = time.monotonic()
connect_returns ==
    /\ pc = "connecting"
    /\ pc' = "top"
    /\ _client' = TRUE
    /\ conn' = Connected
    /\ _stream' = TRUE
    /\ _running' = TRUE
    /\ last_time' = now
    /\ starts' = <<now>>
    /\ UNCHANGED <<params, dt, base_frequency_range, trace, stop_at, _handlers,
                   dispatch, pending, tick_events, log, published, subscriptions,
                   storeVars, raceVars, decodeVars, detVars,
                   _buffer, audio, result, hyst, built, stops>>

\* line 136: connect() raises after its last attempt; start() raises with it
connect_raises ==
    /\ pc = "connecting"
    /\ pc' = "failed"
    /\ UNCHANGED <<params, last_time, dt, _stream, _client, base_frequency_range,
                   trace, starts, stop_at,
                   storeVars, raceVars, decodeVars, busVars, detVars, ioVars>>

\* lines 144-147: the loop test passes; now, dt and last_time of the tick
TickBegin(d) ==
    /\ pc = "top"
    /\ _running
    /\ Ticks < MaxTicks
    /\ pc' = "blink"
    /\ now' = now + d
    /\ dt' = now' - last_time
    /\ last_time' = now'
    /\ starts' = Append(starts, now')
    /\ trace' = <<>>
    /\ UNCHANGED <<params, _stream, _client, base_frequency_range, stop_at,
                   duration, call, emitted, _last_blink, _last_clench, _zi,
                   _baseline_values, _in_burst, _last_update, fed, detectors,
                   storeVars, raceVars, decodeVars, busVars, ioVars>>

\* a loop that decays the triggers before it updates the parameters
MutDecayFirst(step) ==
    IF step = "blink" THEN "clench"
    ELSE IF step = "clench" THEN "alpha"
    ELSE IF step = "alpha" THEN "decay"
    ELSE IF step = "decay" THEN "update"
    ELSE IF step = "update" THEN "render"
    ELSE "sleep"

\* lines 150-166: the statement after each statement of the loop body, named
\* by the detector called (self.detectors is blink, clench, alpha) or by the
\* method called
NextStep(step) ==
    IF step = "blink" THEN "clench"
    ELSE IF step = "clench" THEN "alpha"
    ELSE IF step = "alpha" THEN "update"
    ELSE IF step = "update" THEN "decay"
    ELSE IF step = "decay" THEN "render"
    ELSE "sleep"

\* the lists of event types detector.detect can return; the alpha detector
\* returns a start only outside a burst and an end only inside one
DetectorEvents(detector) ==
    IF detector = "blink" THEN {<<>>, <<"BLINK">>}
    ELSE IF detector = "clench" THEN {<<>>, <<"CLENCH">>}
    ELSE IF _in_burst THEN {<<>>, <<"ALPHA_BURST_END">>}
    ELSE {<<>>, <<"ALPHA_BURST_START">>}

\* lines 150-152: one detector is called and each event it returns is
\* published; the bus calls the handlers of the type, then the wildcard ones
Detect(types) ==
    /\ pc \in detectors
    /\ types \in DetectorEvents(pc)
    /\ pc' = NextStep(pc)
    /\ _in_burst' = IF types = <<"ALPHA_BURST_START">> THEN TRUE
                    ELSE IF types = <<"ALPHA_BURST_END">> THEN FALSE
                    ELSE _in_burst
    /\ LET events == [i \in 1..Len(types) |-> Event(types[i], now, None, {})]
           handlers(e) == _handlers[e.type] \o _handlers[None]
           handled(e) == \E i \in 1..Len(handlers(e)) :
                             handlers(e)[i] = "_handle_event"
       IN  /\ params' = IF Len(events) > 0 /\ handled(events[1])
                        THEN _handle_event(params, events[1].type)
                        ELSE params
           /\ published' = published \o
                  [i \in 1..Len(events) |->
                      [event |-> events[i], typed |-> _handlers[events[i].type],
                       wildcard |-> _handlers[None]]]
           /\ trace' = trace \o <<[step |-> "detect", detector |-> pc]>> \o
                  [i \in 1..Len(events) |-> [step |-> "publish", event |-> events[i]]]
    /\ UNCHANGED <<last_time, dt, _stream, _client, base_frequency_range, starts,
                   stop_at, _handlers, dispatch, pending, tick_events, _running, log,
                   subscriptions, duration, now, call, emitted, _last_blink,
                   _last_clench, _zi, _baseline_values, _last_update, fed, detectors,
                   storeVars, raceVars, decodeVars, ioVars>>

\* line 155: self._update_sound_params(); the AF7 window holds len samples,
\* never fewer than it held at an earlier tick (fed["AF7"]), and all band
\* powers of a window of less than a second are 0.0
Update(len, powers) ==
    /\ pc = "update"
    /\ len >= fed["AF7"]
    /\ len < SAMPLE_RATE => powers = <<0, 0, 0, 0, 0>>
    /\ fed' = [fed EXCEPT !["AF7"] = len]
    /\ pc' = NextStep(pc)
    /\ params' = _update_sound_params(params, len, powers, base_frequency_range)
    /\ trace' = Append(trace, [step |-> "update"])
    /\ UNCHANGED <<last_time, dt, _stream, _client, base_frequency_range, starts,
                   stop_at, duration, now, call, emitted, _last_blink, _last_clench,
                   _zi, _baseline_values, _in_burst, _last_update, detectors,
                   storeVars, raceVars, decodeVars, busVars, ioVars>>

\* line 158: self._decay_triggers(dt)
Decay ==
    /\ pc = "decay"
    /\ pc' = NextStep(pc)
    /\ params' = _decay_triggers(params, dt)
    /\ trace' = Append(trace, [step |-> "decay", dt |-> dt])
    /\ UNCHANGED <<last_time, dt, _stream, _client, base_frequency_range, starts,
                   stop_at, storeVars, raceVars, decodeVars, busVars, detVars, ioVars>>

\* lines 161-166: one block is generated from self.params and written to the
\* output; asyncio.sleep is awaited
Render ==
    /\ pc = "render"
    /\ pc' = NextStep(pc)
    /\ trace' = Append(trace, [step |-> "render", params |-> params])
    /\ UNCHANGED <<params, last_time, dt, _stream, _client, base_frequency_range,
                   starts, stop_at,
                   storeVars, raceVars, decodeVars, busVars, detVars, ioVars>>

\* line 166: asyncio.sleep returns
Wake ==
    /\ pc = "sleep"
    /\ pc' = "top"
    /\ UNCHANGED <<params, last_time, dt, _stream, _client, base_frequency_range,
                   trace, starts, stop_at,
                   storeVars, raceVars, decodeVars, busVars, detVars, ioVars>>

\* Pipeline.stop(): self._running = False; self.output.stop();
\* await self.connection.disconnect()
StopBody ==
    /\ _running' = FALSE
    /\ _stream' = FALSE
    /\ _client' = FALSE

\* lines 144 and 170-171: the loop test fails; finally: await self.stop()
LoopExit ==
    /\ pc = "top"
    /\ ~_running
    /\ pc' = "done"
    /\ StopBody
    /\ UNCHANGED <<params, last_time, dt, base_frequency_range, trace, starts,
                   stop_at, _handlers, dispatch, pending, tick_events, log,
                   published, subscriptions,
                   storeVars, raceVars, decodeVars, detVars, ioVars>>

\* run_sonify.py line 16: SIGINT schedules pipeline.stop(), which runs while
\* start() is suspended
stop ==
    /\ pc \in {"connecting", "sleep"}
    /\ StopBody
    /\ stop_at' = IF stop_at = NoStop THEN Ticks ELSE stop_at
    /\ UNCHANGED <<params, pc, last_time, dt, base_frequency_range, trace, starts,
                   _handlers, dispatch, pending, tick_events, log, published,
                   subscriptions, storeVars, raceVars, decodeVars, detVars, ioVars>>

\* the time between the starts of two ticks, in milliseconds
DtSteps == {100, 199}

\* lengths of the window the mapper reads: just below and at one second
UpdateLens == {SAMPLE_RATE - 1, SAMPLE_RATE}

\* band powers <<Delta, Theta, Alpha, Beta, Gamma>> of that window
PowerVectors ==
    {<<0, 0, 0, 0, 0>>, <<0, 0, 1, 0, 0>>, <<0, 1, 0, 1, 1>>}

\* configured ranges: the default and a narrower one
FrequencyRanges == {<<110, 880>>, <<300, 600>>}

TickNext ==
    \/ start
    \/ connect_returns
    \/ connect_raises
    \/ \E d \in DtSteps : TickBegin(d)
    \/ \E types \in {<<>>, <<"BLINK">>, <<"CLENCH">>, <<"ALPHA_BURST_START">>,
                       <<"ALPHA_BURST_END">>} : Detect(types)
    \/ \E len \in UpdateLens, powers \in PowerVectors : Update(len, powers)
    \/ Decay
    \/ Render
    \/ Wake
    \/ LoopExit
    \/ stop

(***************************************************************************)
(* thebox/ble/connection.py : MuseConnection.connect, one awaited call at  *)
(* a time.  Every awaited call of the client returns or raises.            *)
(***************************************************************************)
max_retries == 3

\* retry_delay = 2.0 s, in milliseconds
retry_delay == 2000

\* MuseConnection(device_name); client is 0 for None, else the number of the
\* attempt that created the BleakClient
ConnIdle ==
    [pc |-> "new", attempt |-> 0, client |-> 0, _connected |-> FALSE,
     is_connected |-> FALSE, notified |-> <<>>, resumed |-> FALSE, steps |-> <<>>]

\* the variables connect() leaves alone
connFrame ==
    <<storeVars, raceVars, decodeVars, busVars, detVars, pipeVars,
      _buffer, audio, result, hyst, built, stops>>

\* MuseConnection.connected
connected == conn._connected /\ conn.client # 0 /\ conn.is_connected

\* connect() is called: await self._scan()
connect ==
    /\ conn.pc = "new"
    /\ conn' = [conn EXCEPT !.pc = "scan"]
    /\ UNCHANGED connFrame

\* lines 96-97: the device is found; _trust() never raises
_scan_returns ==
    /\ conn.pc = "scan"
    /\ conn' = [conn EXCEPT !.pc = "loop"]
    /\ UNCHANGED connFrame

\* line 96: _scan() raises, the device was not found
_scan_raises ==
    /\ conn.pc = "scan"
    /\ conn' = [conn EXCEPT !.pc = "raised"]
    /\ UNCHANGED connFrame

\* lines 99-105: the next attempt creates a BleakClient and awaits its connect()
attempt_begins ==
    /\ conn.pc = "loop"
    /\ conn.attempt < max_retries
    /\ conn' = [conn EXCEPT !.pc = "client.connect", !.attempt = @ + 1,
                            !.client = conn.attempt + 1, !.is_connected = FALSE,
                            !.notified = <<>>, !.resumed = FALSE]
    /\ UNCHANGED connFrame

\* lines 105-107: client.connect() returns; self._connected = True
client_connect_returns ==
    /\ conn.pc = "client.connect"
    /\ conn' = [conn EXCEPT !.pc = "start_notify", !._connected = TRUE,
                            !.is_connected = TRUE]
    /\ UNCHANGED connFrame

\* lines 110-113: start_notify returns for the next channel of EEG_UUIDS
start_notify_returns ==
    /\ conn.pc = "start_notify"
    /\ LET notified == Append(conn.notified, CHANNEL_NAMES[Len(conn.notified) + 1])
       IN  conn' = [conn EXCEPT !.notified = notified,
                                !.pc = IF Len(notified) = Len(CHANNEL_NAMES)
                                       THEN "write_gatt_char" ELSE @]
    /\ UNCHANGED connFrame

\* lines 116-117: the RESUME command is written; connect() returns
write_gatt_char_returns ==
    /\ conn.pc = "write_gatt_char"
    /\ conn' = [conn EXCEPT !.pc = "returned", !.resumed = TRUE,
                            !.steps = Append(@, [step |-> "succeeded",
                                                 attempt |-> conn.attempt])]
    /\ UNCHANGED connFrame

\* lines 118-123: an awaited call of the attempt raises; the link is down
\* (linked = FALSE) or still up; the except block clears _connected and sleeps
\* unless the attempt was the last
call_raises(linked) ==
    /\ conn.pc \in {"client.connect", "start_notify", "write_gatt_char"}
    /\ linked => conn.is_connected
    /\ conn' = [conn EXCEPT !.pc = IF conn.attempt < max_retries THEN "sleep"
                                   ELSE "loop",
                            !._connected = FALSE,
                            !.is_connected = linked,
                            !.steps = Append(@, [step |-> "failed",
                                                 attempt |-> conn.attempt,
                                                 call |-> conn.pc,
                                                 linked |-> linked])]
    /\ UNCHANGED connFrame

\* line 123: asyncio.sleep(self.retry_delay) returns
sleep_returns ==
    /\ conn.pc = "sleep"
    /\ conn' = [conn EXCEPT !.pc = "loop",
                            !.steps = Append(@, [step |-> "sleep",
                                                 seconds |-> retry_delay])]
    /\ UNCHANGED connFrame

\* line 125: the loop is over; raise RuntimeError
all_failed ==
    /\ conn.pc = "loop"
    /\ conn.attempt >= max_retries
    /\ conn' = [conn EXCEPT !.pc = "raised"]
    /\ UNCHANGED connFrame

ConnNext ==
    \/ connect
    \/ _scan_returns
    \/ _scan_raises
    \/ attempt_begins
    \/ client_connect_returns
    \/ start_notify_returns
    \/ write_gatt_char_returns
    \/ \E linked \in BOOLEAN : call_raises(linked)
    \/ sleep_returns
    \/ all_failed

(***************************************************************************)
(* thebox/sound/output.py : AudioOutput.  write runs in the control loop,  *)
(* _callback in the audio thread; each deque operation is atomic.  Samples *)
(* are counted in units of 2^-25 and lie in [0.5, 1), where a float64 is   *)
(* any integer of [2^24, 2^25) and a float32 any even one.                 *)
(***************************************************************************)
buffer_blocks == 2   \* AudioOutput(buffer_blocks)
MaxWritten == 4      \* blocks written over a run
MaxPlayed == 2       \* playback callbacks over a run
MaxFrames == 2       \* frames a callback asks for

HALF == 16777216

\* the value of outdata's frames before the callback fills them
Garbage == 0 - 1

\* audio.astype(np.float32) of one sample: the nearest even integer, the
\* tie of an odd one going to the multiple of 4
astype_float32(v) ==
    IF v % 2 = 0 THEN v ELSE IF (v - 1) % 4 = 0 THEN v - 1 ELSE v + 1

\* the k-th block the mixer hands over, n samples long
Block(k, n) == [i \in 1..n |-> HALF + 8 * k + i]

\* a queue that refuses the new block when it is full
MutDropNewest(buf, block) ==
    IF Len(buf) >= buffer_blocks THEN buf ELSE Append(buf, block)

\* deque(maxlen=buffer_blocks).append(block)
BufferAppend(buf, block) ==
    IF buffer_blocks = 0 THEN buf
    ELSE IF Len(buf) >= buffer_blocks THEN Append(Tail(buf), block)
    ELSE Append(buf, block)

\* AudioOutput() : nothing written, nothing played
AudioInit ==
    /\ _buffer = <<>>
    /\ audio = [written |-> <<>>, played |-> <<>>, pc |-> "idle", frames |-> 0,
                last |-> [op |-> "init"]]

\* the variables the audio engine leaves alone
audioFrame ==
    <<storeVars, raceVars, decodeVars, busVars, detVars, pipeVars,
      conn, result, hyst, built, stops>>

\* AudioOutput.write(audio)
write(block) ==
    /\ Len(audio.written) < MaxWritten
    /\ LET queued == [i \in 1..Len(block) |-> astype_float32(block[i])]
       IN  /\ _buffer' = BufferAppend(_buffer, queued)
           /\ audio' = [audio EXCEPT !.written = Append(@, queued),
                                     !.last = [op |-> "write", before |-> _buffer,
                                               block |-> queued]]
    /\ UNCHANGED audioFrame

\* line 46: the callback is entered and tests self._buffer
_callback(frames) ==
    /\ audio.pc = "idle"
    /\ Len(audio.played) < MaxPlayed
    /\ IF _buffer # <<>>
       THEN /\ audio' = [audio EXCEPT !.pc = "popleft", !.frames = frames]
            /\ UNCHANGED _buffer
       ELSE \* line 53: outdata[:, 0] = 0.0
            /\ audio' = [audio EXCEPT
                   !.played = Append(@, [frames |-> frames, block |-> <<>>,
                                         underflow |-> TRUE,
                                         outdata |-> [i \in 1..frames |-> 0]]),
                   !.last = [op |-> "_callback"]]
            /\ UNCHANGED _buffer
    /\ UNCHANGED audioFrame

\* lines 47-51: block = self._buffer.popleft(); the first n frames are the
\* block's, the others 0.0
_callback_popleft ==
    /\ audio.pc = "popleft"
    /\ LET block == Head(_buffer)
           frames == audio.frames
           n == Min(Len(block), frames)
           copied == [i \in 1..frames |-> IF i <= n THEN block[i] ELSE Garbage]
           outdata == [i \in 1..frames |-> IF n < frames /\ i > n THEN 0
                                           ELSE copied[i]]
       IN  /\ _buffer' = Tail(_buffer)
           /\ audio' = [audio EXCEPT
                  !.pc = "idle",
                  !.played = Append(@, [frames |-> frames, block |-> block,
                                        underflow |-> FALSE, outdata |-> outdata]),
                  !.last = [op |-> "_callback"]]
    /\ UNCHANGED audioFrame

AudioNext ==
    \/ \E n \in 1..MaxFrames + 1 : write(Block(Len(audio.written) + 1, n))
    \/ \E frames \in 1..MaxFrames : _callback(frames)
    \/ _callback_popleft

(***************************************************************************)
(* thebox/events/alpha.py, lines 63-90 : the burst state machine of        *)
(* AlphaBurstDetector.detect driven by a sequence of updates, each with    *)
(* its alpha power (in half units) and its baseline (in quarter units).    *)
(***************************************************************************)
MaxUpdates == 4      \* updates that reach the state machine over a run

\* AlphaBurstDetector() : self._in_burst = False, no update made
HystInit == hyst = [in_burst |-> FALSE, inputs |-> <<>>, events |-> <<>>, was |-> <<>>]

\* lines 63-90 of one update: nothing for a baseline <= 0, else the
\* transition on ratio = alpha_power / baseline
HystUpdate(alpha_power, baseline) ==
    /\ Len(hyst.inputs) < MaxUpdates
    /\ LET type == IF baseline <= 0 THEN None
                   ELSE Transition(hyst.in_burst, alpha_power, baseline)
       IN  hyst' = [in_burst |-> IF type = "ALPHA_BURST_START" THEN TRUE
                                 ELSE IF type = "ALPHA_BURST_END" THEN FALSE
                                 ELSE hyst.in_burst,
                    inputs |-> Append(hyst.inputs, <<alpha_power, baseline>>),
                    events |-> Append(hyst.events, type),
                    was |-> Append(hyst.was, hyst.in_burst)]
    /\ UNCHANGED <<storeVars, raceVars, decodeVars, busVars, detVars, pipeVars,
                   conn, _buffer, audio, result, built, stops>>

\* alpha powers and baselines giving the ratios 1/2, 1 (twice), 5/4, 3/2
\* and 2, and a baseline of 0
HystInputs == ((1..4) \X {4}) \cup {<<1, 2>>, <<5, 8>>, <<1, 0>>}

HystNext == \E in \in HystInputs : HystUpdate(in[1], in[2])

(***************************************************************************)
(* The constructors of the detectors, the store and the pipeline, called   *)
(* with tunables inside and outside their admissible ranges.  Thresholds   *)
(* are in microvolts, windows, debounces, decays and baselines in          *)
(* milliseconds, the buffer duration in half sample periods, the ratio a   *)
(* fraction.                                                               *)
(***************************************************************************)
\* int(n / d) of Python for d # 0: the quotient truncated towards zero
int(n, d) ==
    IF (n >= 0) = (d > 0) \/ n = 0
    THEN (IF n >= 0 THEN n ELSE 0 - n) \div (IF d > 0 THEN d ELSE 0 - d)
    ELSE 0 - ((IF n >= 0 THEN n ELSE 0 - n) \div (IF d > 0 THEN d ELSE 0 - d))

NotBuilt == [cls |-> "none", args |-> [none |-> 0], raised |-> "none"]

\* np.zeros(capacity) of EEGStream.__init__
EEGStreamRaises(d) ==
    IF int(d * SAMPLE_RATE, TimeDen) < 0 THEN "ValueError" ELSE "none"

\* deque(maxlen=int(baseline_seconds / update_interval))
AlphaBurstDetectorRaises(baseline_seconds, interval) ==
    IF interval = 0 THEN "ZeroDivisionError"
    ELSE IF int(baseline_seconds, interval) < 0 THEN "ValueError"
    ELSE "none"

\* BlinkDetector(threshold, window, debounce) stores its arguments
BlinkDetector(th, w, db) ==
    /\ built' = [cls |-> "BlinkDetector",
                 args |-> [threshold |-> th, window |-> w,
                           debounce |-> db],
                 raised |-> "none"]
    /\ UNCHANGED <<storeVars, raceVars, decodeVars, busVars, detVars, pipeVars,
                   conn, _buffer, audio, result, hyst, stops>>

\* ClenchDetector(threshold, window, debounce) stores its arguments
ClenchDetector(th, w, db) ==
    /\ built' = [cls |-> "ClenchDetector",
                 args |-> [threshold |-> th, window |-> w,
                           debounce |-> db],
                 raised |-> "none"]
    /\ UNCHANGED <<storeVars, raceVars, decodeVars, busVars, detVars, pipeVars,
                   conn, _buffer, audio, result, hyst, stops>>

\* AlphaBurstDetector(ratio_threshold, baseline_seconds,
\*                    update_interval=interval)
AlphaBurstDetector(ratio, baseline_seconds, interval) ==
    /\ built' = [cls |-> "AlphaBurstDetector",
                 args |-> [ratio_threshold |-> ratio,
                           baseline_seconds |-> baseline_seconds,
                           update_interval |-> interval],
                 raised |-> AlphaBurstDetectorRaises(baseline_seconds, interval)]
    /\ UNCHANGED <<storeVars, raceVars, decodeVars, busVars, detVars, pipeVars,
                   conn, _buffer, audio, result, hyst, stops>>

\* EEGStream(duration) called on its own
EEGStreamCall(d) ==
    /\ built' = [cls |-> "EEGStream", args |-> [duration |-> d],
                 raised |-> EEGStreamRaises(d)]
    /\ UNCHANGED <<storeVars, raceVars, decodeVars, busVars, detVars, pipeVars,
                   conn, _buffer, audio, result, hyst, stops>>

\* Pipeline(config): the store, then the three detectors with the default
\* update interval, then the sound objects; the decays are only read by the
\* processing loop
PipelineCall(config) ==
    /\ built' = [cls |-> "Pipeline", args |-> config,
                 raised |->
                    IF EEGStreamRaises(config.eeg_buffer_seconds) # "none"
                    THEN EEGStreamRaises(config.eeg_buffer_seconds)
                    ELSE AlphaBurstDetectorRaises(config.alpha_baseline_seconds,
                                                  update_interval)]
    /\ UNCHANGED <<storeVars, raceVars, decodeVars, busVars, detVars, pipeVars,
                   conn, _buffer, audio, result, hyst, stops>>

\* tunables on both sides of each admissible range
Thresholds == {0 - 1, 0, 200}
Windows == {0 - 100, 0, 200}
Debounces == {0 - 300, 0, 300}
Ratios == {[num |-> 1, den |-> 2], [num |-> 1, den |-> 1], [num |-> 3, den |-> 2]}
Baselines == {0 - 2500, 0 - 100, 0, 1000, 2000, 2500}
Intervals == {0, 500}
Durations == {0 - 2, 0 - 1, 0, 1, 2, 10 * TimeDen}
Decays == {0 - 200, 0, 200}
Configs ==
    [eeg_buffer_seconds : {0 - 2, 0, 10 * TimeDen},
     blink_threshold : {0 - 1, 200},
     blink_window : {200},
     blink_debounce : {300},
     clench_threshold : {30},
     clench_window : {0, 500},
     clench_debounce : {500},
     alpha_burst_ratio : {[num |-> 1, den |-> 2], [num |-> 3, den |-> 2]},
     alpha_baseline_seconds : {0 - 2500, 1000, 2500},
     blink_decay : {0, 200},
     clench_decay : {0 - 300, 300}]

ConfigNext ==
    \/ \E th \in Thresholds, w \in Windows, db \in Debounces :
          BlinkDetector(th, w, db)
    \/ \E th \in Thresholds, w \in Windows, db \in Debounces :
          ClenchDetector(th, w, db)
    \/ \E r \in Ratios, b \in Baselines, i \in Intervals :
          AlphaBurstDetector(r, b, i)
    \/ \E d \in Durations : EEGStreamCall(d)
    \/ \E c \in Configs : PipelineCall(c)

\* the objects of the audio engine, the readers, the state machine and the
\* constructors before any call
MaxSignals == 2      \* stop() calls the signal handler schedules over a run

\* the calls of Pipeline.stop(): 0 is the one in the finally of start(), the
\* others are scheduled by the signal handler and numbered as they are made
StopIds == 0..MaxSignals

\* no stop() called; start() carries no exception
StopsIdle ==
    [calls |-> [s \in StopIds |-> [pc |-> "idle", n |-> 0, on |-> 0,
                                   none |-> FALSE, audio |-> "none",
                                   again |-> FALSE]],
     raising |-> FALSE]

IoIdle ==
    /\ stops = StopsIdle
    /\ conn = ConnIdle
    /\ AudioInit
    /\ result = [copy |-> <<>>]
    /\ HystInit
    /\ built = NotBuilt

(***************************************************************************)
(* Stores of several durations, with every read of the store: get_window,  *)
(* sample_count, total_samples and the detect call of one detector.        *)
(***************************************************************************)
MaxDuration == 6     \* longest EEGStream(duration), in half sample periods
MaxReadTotal == 3    \* samples appended over a run of reads

\* batch lengths append accepts: an empty ring takes at most one sample
ReadBatches ==
    0 .. Min(IF capacity = 0 THEN 1 ELSE 2, MaxReadTotal - TotalAppended)

ReadNext ==
    \/ \E c \in {"AF7", "TP9"}, n \in ReadBatches : AppendCall(c, Batch(c, n))
    \/ \E c \in {"AF7", "TP9"} : AppendRaises(c, Batch(c, 2))
    \/ \E c \in {"AF7", "TP9"}, s \in {1, 2, 4, NoSeconds} : GetWindowCall(c, s)
    \/ \E c \in {"AF7", "AF8"} : SampleCountCall(c)
    \/ TotalSamplesCall
    \/ BlinkDetectCall(now)
    \/ ClenchDetectCall(now, 0, 0)
    \/ AlphaSkip(now)
    \/ AlphaUpdate(now + update_interval, sample_count("AF7"),
                   sample_count("AF8"), 0, 0)

ReadInit ==
    /\ \E d \in 1..MaxDuration : EEGStream(d)
    /\ RaceIdle /\ DecodeIdle /\ BusIdle /\ DetectorsInit
    /\ detectors \in {{"blink"}, {"clench"}, {"alpha"}}
    /\ PipeIdle /\ IoIdle

Init == StoreInit /\ RaceIdle /\ DecodeIdle /\ BusIdle /\ DetIdle /\ PipeIdle /\ IoIdle

Next ==
    \/ \E c \in Channels, n \in 0..MaxBatch : AppendCall(c, Batch(c, n))
    \/ \E c \in Channels, s \in Seconds : GetWindowCall(c, s)

Spec == Init /\ [][Next]_vars

DecodeNext == DecodeCall

DecodeSpecInit == StoreInit /\ RaceIdle /\ DecodeInit /\ BusIdle /\ DetIdle /\ PipeIdle /\ IoIdle

DecodeSpec == DecodeSpecInit /\ [][DecodeNext]_vars

BusSpecInit == StoreInit /\ RaceIdle /\ DecodeIdle /\ BusInit /\ DetIdle /\ PipeIdle /\ IoIdle

BusSpec == BusSpecInit /\ [][BusNext]_vars

NotifySpec == Init /\ [][NotifyNext]_vars

RaceSpec == Init /\ [][RaceNext]_vars

DetectInit ==
    /\ EEGStream(DetDuration) /\ RaceIdle /\ DecodeIdle /\ BusIdle /\ DetectorsInit
    /\ detectors \in {{"blink"}, {"clench"}}
    /\ PipeIdle /\ IoIdle

DetectSpec == DetectInit /\ [][DetectNext]_vars

AlphaInit ==
    /\ StoreInit /\ RaceIdle /\ DecodeIdle /\ BusIdle /\ DetectorsInit
    /\ detectors = {"alpha"}
    /\ PipeIdle /\ IoIdle

AlphaSpec == AlphaInit /\ [][AlphaNext]_vars

(***************************************************************************)
(* The mapping called on its own: the AF7 window changes by appends, the   *)
(* record by events, and _update_sound_params is called at any time.  The  *)
(* window is its length and the band powers computed from it; trace keeps  *)
(* each call with the record before and after it.                          *)
(***************************************************************************)
MaxMapSteps == 4     \* appends, events and mapping calls of a run

\* stream.get_window("AF7", seconds=2.0) as the last append left it
MapWindow ==
    LET appends == {i \in 1..Len(trace) : trace[i].step = "append"}
    IN  IF appends = {} THEN [len |-> 0, powers |-> <<0, 0, 0, 0, 0>>]
        ELSE LET last == CHOOSE i \in appends : \A j \in appends : j <= i
             IN  [len |-> trace[last].len, powers |-> trace[last].powers]

MapAppend(len, powers) ==
    /\ Len(trace) < MaxMapSteps
    /\ len >= fed["AF7"]
    /\ len < SAMPLE_RATE => powers = <<0, 0, 0, 0, 0>>
    /\ fed' = [fed EXCEPT !["AF7"] = len]
    /\ trace' = Append(trace, [step |-> "append", len |-> len, powers |-> powers])
    /\ UNCHANGED <<params, pc, last_time, dt, _stream, _client,
                   base_frequency_range, starts, stop_at, duration, now, call,
                   emitted, _last_blink, _last_clench, _zi, _baseline_values,
                   _in_burst, _last_update, detectors,
                   storeVars, raceVars, decodeVars, busVars, ioVars>>

\* Pipeline._handle_event called by the bus
MapEvent(type) ==
    /\ Len(trace) < MaxMapSteps
    /\ params' = _handle_event(params, type)
    /\ trace' = Append(trace, [step |-> "event", type |-> type])
    /\ UNCHANGED <<pc, last_time, dt, _stream, _client, base_frequency_range,
                   starts, stop_at, detVars,
                   storeVars, raceVars, decodeVars, busVars, ioVars>>

\* Pipeline._update_sound_params()
MapUpdate ==
    /\ Len(trace) < MaxMapSteps
    /\ params' = _update_sound_params(params, MapWindow.len, MapWindow.powers,
                                      base_frequency_range)
    /\ trace' = Append(trace, [step |-> "update", before |-> params,
                               after |-> params', len |-> MapWindow.len,
                               powers |-> MapWindow.powers])
    /\ UNCHANGED <<pc, last_time, dt, _stream, _client, base_frequency_range,
                   starts, stop_at, detVars,
                   storeVars, raceVars, decodeVars, busVars, ioVars>>

MapNext ==
    \/ \E len \in UpdateLens, powers \in PowerVectors : MapAppend(len, powers)
    \/ \E type \in {"BLINK", "CLENCH", "ALPHA_BURST_START", "ALPHA_BURST_END"} :
          MapEvent(type)
    \/ MapUpdate

(***************************************************************************)
(* The control loop with each tick taken as one step: lines 145-164 hold   *)
(* no await, so a tick runs from the reading of the clock to the write of  *)
(* the block without another coroutine in between.  The loop runs for any  *)
(* number of ticks; the readings of the clock are kept modulo ClockWrap,   *)
(* only their differences being used.                                      *)
(***************************************************************************)
ClockWrap == 400

\* the time between the starts of two ticks, in milliseconds: below, at and
\* above the blink decay, and at the clench decay
TickSteps == {100, 200, 300}

\* lines 150-158: the record after the events of the tick were handled, the
\* mapper ran on the AF7 window and the triggers decayed by the dt of the tick
Ticked(d, blink, clench, alpha) ==
    LET handled == \E i \in 1..Len(_handlers[None]) :
                       _handlers[None][i] = "_handle_event"
        handle(p, list) == IF Len(list) > 0 /\ handled
                           THEN _handle_event(p, list[1]) ELSE p
        published_ == handle(handle(handle(params, blink), clench), alpha)
        mapped == _update_sound_params(
                      published_, Len(get_window("AF7", 2 * TimeDen)),
                      <<0, 0, 0, 0, 0>>, base_frequency_range)
    IN  _decay_triggers(mapped, d)

\* lines 145-164: the clock is read, the three detectors run and their events
\* are published to the handlers, the mapper runs on the AF7 window, the
\* triggers decay by the dt of the tick, and the block is rendered from the
\* record
ControlTick(d, blink, clench, alpha) ==
    /\ pc = "top"
    /\ _running
    /\ blink \in DetectorEvents("blink")
    /\ clench \in DetectorEvents("clench")
    /\ alpha \in DetectorEvents("alpha")
    /\ LET types == blink \o clench \o alpha
           decayed == Ticked(d, blink, clench, alpha)
       IN  /\ params' = decayed
           /\ trace' = [i \in 1..Len(types) |-> [step |-> "publish", type |-> types[i]]]
                  \o <<[step |-> "decay", dt |-> d],
                       [step |-> "render", params |-> decayed]>>
    /\ _in_burst' = IF alpha = <<"ALPHA_BURST_START">> THEN TRUE
                    ELSE IF alpha = <<"ALPHA_BURST_END">> THEN FALSE
                    ELSE _in_burst
    /\ dt' = d
    /\ last_time' = (last_time + d) % ClockWrap
    /\ pc' = "sleep"
    /\ _buffer' = BufferAppend(_buffer, <<astype_float32(HALF + 1)>>)
    /\ UNCHANGED <<_stream, _client, base_frequency_range, starts, stop_at,
                   duration, now, call, emitted, _last_blink, _last_clench, _zi,
                   _baseline_values, _last_update, fed, detectors,
                   storeVars, raceVars, decodeVars, busVars,
                   conn, audio, result, hyst, built, stops>>

LoopNext ==
    \/ start
    \/ connect_returns
    \/ \E d \in TickSteps :
          \E blink \in {<<>>, <<"BLINK">>}, clench \in {<<>>, <<"CLENCH">>} :
              ControlTick(d, blink, clench, <<>>)
    \/ Wake

(***************************************************************************)
(* thebox/pipeline.py, lines 168-178, and thebox/ble/connection.py, lines  *)
(* 127-145 : Pipeline.stop() and MuseConnection.disconnect(), one step for *)
(* each stretch of code between two awaits.  The stop() of the signal      *)
(* handler is a task of its own and runs while start() is suspended; the   *)
(* stop() of the finally block runs inside start().                        *)
(***************************************************************************)
\* lines 136 and 140: except Exception
Caught(exc) == exc \in {"AttributeError", "BleakError"}

\* start() waits in connect(), in asyncio.sleep or in the stop() of its
\* finally block: the tasks of the signal handler run (run_sonify.py, line
\* 16); once start() has ended asyncio.run closes the loop (line 22)
Suspended ==
    \/ pc \in {"connecting", "sleep"}
    \/ pc = "finally" /\ stops.calls[0].pc # "idle"

\* lines 144-145: self._connected = False; self._client = None
Released(c) == [c EXCEPT !._connected = FALSE, !.client = 0]

\* lines 139-145: the second try of disconnect(); self._client is read again
\* and may be None by now
SecondTry(cl, c) ==
    IF c.client # 0
    THEN [call |-> [cl EXCEPT !.pc = "disconnect", !.on = c.client], conn |-> c]
    ELSE IF Caught("AttributeError")
    THEN [call |-> [cl EXCEPT !.pc = "returned", !.none = TRUE], conn |-> Released(c)]
    ELSE [call |-> [cl EXCEPT !.pc = "raised", !.none = TRUE], conn |-> c]

\* lines 136-137: an exception raised inside the first try
FirstTryRaises(cl, c, exc) ==
    IF Caught(exc) THEN SecondTry(cl, c)
    ELSE [call |-> [cl EXCEPT !.pc = "raised"], conn |-> c]

\* lines 133-135: an await of the first try has returned; the next
\* stop_notify is called on self._client, read again, or the loop is over
FirstTryNext(cl, c) ==
    IF cl.n = Len(CHANNEL_NAMES) THEN SecondTry(cl, c)
    ELSE IF c.client = 0
    THEN FirstTryRaises([cl EXCEPT !.none = TRUE], c, "AttributeError")
    ELSE [call |-> [cl EXCEPT !.pc = "stop_notify", !.n = @ + 1, !.on = c.client],
          conn |-> c]

\* the connection after the awaited call of a stop() has returned; the call
\* was made on the client self._client named when it began (cl.on)
Returned(cl, c) ==
    IF cl.on # c.client THEN c
    ELSE IF cl.pc = "stop_notify"
    THEN [c EXCEPT !.notified = SelectSeq(@, LAMBDA ch : ch # CHANNEL_NAMES[cl.n])]
    ELSE IF cl.pc = "disconnect" THEN [c EXCEPT !.is_connected = FALSE]
    ELSE c

\* the variables stop() and disconnect() leave alone
stopFrame ==
    <<storeVars, raceVars, decodeVars, detVars, _handlers, dispatch, pending,
      tick_events, log, published, subscriptions, params, last_time, dt,
      base_frequency_range, trace, starts, stop_at, audio, result, hyst, built>>

\* lines 175-177 and 129-132: stop() is called and runs to its first await;
\* output.stop() returns (audio_ok) or the stream's stop() or close() raises
stop_called(s, audio_ok) ==
    /\ stops.calls[s].pc = "idle"
    /\ IF s = 0 THEN pc = "finally" ELSE Suspended
    /\ s > 1 => stops.calls[s - 1].pc # "idle"
    /\ audio_ok \/ _stream
    /\ _running' = FALSE
    /\ IF audio_ok
       THEN /\ _stream' = FALSE
            /\ _buffer' = <<>>
            /\ stops' = [stops EXCEPT
                   !.calls[s].pc = IF conn.client = 0 THEN "returned" ELSE "halt",
                   !.calls[s].on = conn.client,
                   !.calls[s].audio = IF _stream THEN "stopped" ELSE "none",
                   !.calls[s].again = \E t \in StopIds : stops.calls[t].pc # "idle"]
       ELSE /\ stops' = [stops EXCEPT
                   !.calls[s].pc = "raised",
                   !.calls[s].audio = "raised",
                   !.calls[s].again = \E t \in StopIds : stops.calls[t].pc # "idle"]
            /\ UNCHANGED <<_stream, _buffer>>
    /\ UNCHANGED <<pc, _client, conn, stopFrame>>

\* lines 132-145: the call a stop() awaits returns (ok) or raises, and
\* disconnect() runs to its next await or to its end
stop_resumes(s, ok) ==
    /\ Suspended
    /\ stops.calls[s].pc \in {"halt", "stop_notify", "disconnect"}
    /\ ok => \/ stops.calls[s].pc = "disconnect"
             \/ stops.calls[s].on # conn.client
             \/ conn.is_connected
    /\ LET cl == stops.calls[s]
           c == IF ok THEN Returned(cl, conn) ELSE conn
           out == IF cl.pc = "disconnect"
                  THEN IF ok \/ Caught("BleakError")
                       THEN [call |-> [cl EXCEPT !.pc = "returned"],
                             conn |-> Released(c)]
                       ELSE [call |-> [cl EXCEPT !.pc = "raised"], conn |-> c]
                  ELSE IF ok THEN FirstTryNext(cl, c)
                  ELSE FirstTryRaises(cl, c, "BleakError")
       IN  /\ stops' = [stops EXCEPT !.calls[s] = out.call]
           /\ conn' = out.conn
           /\ _client' = (out.conn.client # 0)
    /\ UNCHANGED <<pc, _running, _stream, _buffer, stopFrame>>

\* lines 144 and 170: the loop test fails and the finally block is entered
loop_ends ==
    /\ pc = "top"
    /\ ~_running
    /\ pc' = "finally"
    /\ UNCHANGED <<_running, _stream, _buffer, _client, conn, stops, stopFrame>>

\* lines 145-164 and 170: mixer.generate or output.write raises; the
\* exception is no CancelledError and leaves the loop through the finally
\* block
tick_raises(d) ==
    /\ pc = "top"
    /\ _running
    /\ params' = Ticked(d, <<>>, <<>>, <<>>)
    /\ trace' = <<[step |-> "decay", dt |-> d], [step |-> "raise"]>>
    /\ dt' = d
    /\ last_time' = (last_time + d) % ClockWrap
    /\ pc' = "finally"
    /\ stops' = [stops EXCEPT !.raising = TRUE]
    /\ UNCHANGED <<_stream, _client, base_frequency_range, starts, stop_at,
                   detVars, storeVars, raceVars, decodeVars, busVars,
                   conn, _buffer, audio, result, hyst, built>>

\* line 171: the stop() of the finally block is over; start() returns, or
\* raises what the loop or stop() raised
start_ends ==
    /\ pc = "finally"
    /\ stops.calls[0].pc \in {"returned", "raised"}
    /\ pc' = IF stops.raising \/ stops.calls[0].pc = "raised" THEN "failed"
             ELSE "done"
    /\ UNCHANGED <<_running, _stream, _buffer, _client, conn, stops, stopFrame>>

\* lines 94-125: connect() runs to its next await while start() waits for
\* it; an attempt that finds self._client set to None by a disconnect() fails
\* with an AttributeError at its next call on it
connect_step ==
    /\ pc = "connecting"
    /\ IF conn.client = 0 /\ conn.pc \in {"client.connect", "start_notify"}
       THEN call_raises(FALSE)
       ELSE \/ connect
            \/ _scan_returns
            \/ attempt_begins
            \/ client_connect_returns
            \/ start_notify_returns
            \/ write_gatt_char_returns
            \/ sleep_returns

\* lines 136-143: connect() has returned; output.start();
\* self._running = True; last_time = time.monotonic()
connect_done ==
    /\ pc = "connecting"
    /\ conn.pc = "returned"
    /\ pc' = "top"
    /\ _client' = (conn.client # 0)
    /\ _stream' = TRUE
    /\ _running' = TRUE
    /\ last_time' = now
    /\ starts' = <<now>>
    /\ UNCHANGED <<params, dt, base_frequency_range, trace, stop_at, _handlers,
                   dispatch, pending, tick_events, log, published, subscriptions,
                   storeVars, raceVars, decodeVars, detVars, ioVars>>

\* a run of the pipeline in which the audio engine and the transport work
StopNext ==
    \/ start
    \/ connect_step
    \/ connect_done
    \/ ControlTick(100, <<>>, <<>>, <<>>)
    \/ Wake
    \/ loop_ends
    \/ \E s \in StopIds : stop_called(s, TRUE)
    \/ \E s \in StopIds, ok \in BOOLEAN : stop_resumes(s, ok)
    \/ start_ends

\* a run in which rendering a block and stopping the stream may fail
FaultNext ==
    \/ start
    \/ connect_returns
    \/ ControlTick(100, <<>>, <<>>, <<>>)
    \/ tick_raises(100)
    \/ Wake
    \/ loop_ends
    \/ \E s \in StopIds, audio_ok \in BOOLEAN : stop_called(s, audio_ok)
    \/ \E s \in StopIds, ok \in BOOLEAN : stop_resumes(s, ok)
    \/ start_ends

(***************************************************************************)
(* The pipeline with its transport: the notify callbacks of bleak run on   *)
(* the event loop of Pipeline.start, so a frame is delivered only while    *)
(* the coroutine is suspended at an await; and start() called again on the *)
(* same Pipeline after it has returned or raised.                          *)
(***************************************************************************)
\* an await of start() that lets transport callbacks run
MutAwaitWrite(step) == step \in {"connecting", "sleep", "render"}

\* the statements of start() that suspend it while the transport is up:
\* line 136, await self.connection.connect(), and line 166, await
\* asyncio.sleep(...)
Awaiting(step) == step \in {"connecting", "sleep"}

\* start_notify has returned for a channel and stop_notify has not: inside
\* connect(), or until disconnect()
TransportUp == pc = "connecting" \/ _client

\* lines 64-70: the callback made for the channel is called with a frame
Notified(channel, data) ==
    /\ Awaiting(pc)
    /\ TransportUp
    /\ NotifyCallback(channel, data)

\* lines 133-136 on a Pipeline whose start() has returned or raised before
start_again ==
    /\ pc \in {"done", "failed"}
    /\ Len(_callbacks) < MaxCallbacks
    /\ pc' = "connecting"
    /\ _callbacks' = _callbacks \o <<"_eeg_callback">>
    /\ _handlers' = [_handlers EXCEPT ![None] = @ \o <<"_handle_event">>]
    /\ UNCHANGED <<params, last_time, dt, _stream, _client, base_frequency_range,
                   trace, starts, stop_at, packet, samples, delivered, dispatch,
                   pending, tick_events, _running, log, published, subscriptions,
                   storeVars, raceVars, detVars, ioVars>>

\* a frame of 20 bytes, twelve samples
SessionFrame == PatternFrame(<<0, 0>>, <<128, 8, 0>>)

SessionNext ==
    \/ start
    \/ start_again
    \/ connect_returns
    \/ connect_raises
    \/ TickBegin(100)
    \/ \E types \in {<<>>, <<"BLINK">>} : Detect(types)
    \/ Update(Len(get_window("AF7", 2 * TimeDen)), <<0, 0, 0, 0, 0>>)
    \/ Decay
    \/ Render
    \/ Wake
    \/ LoopExit
    \/ stop
    \/ Notified("AF7", SessionFrame)

TickInit ==
    /\ StoreInit /\ RaceIdle /\ DecodeIdle /\ BusIdle /\ DetectorsInit
    /\ detectors = {"blink", "clench", "alpha"}
    /\ \E range \in FrequencyRanges : Pipeline(range)
    /\ IoIdle

TickSpec == TickInit /\ [][TickNext]_vars

ConnSpec == Init /\ [][ConnNext]_vars

AudioSpec == Init /\ [][AudioNext]_vars

ReadSpec == ReadInit /\ [][ReadNext]_vars

HystSpec == Init /\ [][HystNext]_vars

ConfigSpec == Init /\ [][ConfigNext]_vars

MapSpec == TickInit /\ [][MapNext]_vars

LoopSpec == TickInit /\ [][LoopNext]_vars

SessionSpec == TickInit /\ [][SessionNext]_vars

StopSpec == TickInit /\ [][StopNext]_vars

FaultSpec == TickInit /\ [][FaultNext]_vars

\* the loop keeps ticking while self._running holds: every sleep returns and
\* the next tick follows
LoopLiveSpec == TickInit /\ [][LoopNext]_vars /\ WF_vars(LoopNext)

(***************************************************************************)
(* Properties of the sample store                                          *)
(***************************************************************************)
\* the sample_count(channel) samples that end at the write position
Content(channel) ==
    [i \in 1 .. sample_count(channel) |->
        _buffers[channel][(_write_pos[channel] - sample_count(channel) + i - 1)
                              % capacity]]

\* C1: after any sequence of appends, on any channels, the samples buffered
\* for a channel are exactly the last min(T, capacity) samples of the
\* concatenation of the batches appended to it, in arrival order.
C1_BufferIsLastSamples ==
    \A c \in Channels :
        Content(c) = LastK(appended[c], Min(Len(appended[c]), capacity))

\* an append has wrapped around the end of a ring that already held samples,
\* evicting the oldest ones, while another channel holds samples too
C1_Witness ==
    /\ last_call.op = "append"
    /\ Len(appended[last_call.channel]) > capacity
    /\ _write_pos[last_call.channel] \notin {0, Len(appended[last_call.channel])}
    /\ \E c \in Channels \ {last_call.channel} : appended[c] # <<>>

\* C2: get_window(channel, seconds) with seconds >= 0 returns exactly the last
\* min(floor(seconds * sample_rate), sample_count) buffered samples, in
\* chronological order.
C2_WindowIsLastRequested ==
    (last_call.op = "get_window" /\ last_call.seconds # NoSeconds) =>
        window = LastK(Content(last_call.channel),
                       Min(IntSamples(last_call.seconds),
                           sample_count(last_call.channel)))

C4_TwelveSamples ==
    (samples # None /\ Len(packet) = FRAME_LEN) => Len(samples) = SAMPLES_PER_PACKET

\* a frame whose payload is neither all zero nor periodic has been decoded
C4_Witness ==
    /\ samples # None
    /\ Len(packet) = FRAME_LEN
    /\ \E i \in 3..FRAME_LEN : packet[i] \in PokeBytes

\* bit k (from 0) of the 144-bit stream of bytes 2-19, most significant first
StreamBit(pkt, k) == (pkt[3 + (k \div 8)] \div 2^(7 - (k % 8))) % 2

\* the unsigned integer formed by bits 12i .. 12i+11 of the stream
Chunk(pkt, i) ==
    LET weighted[j \in 0..12] ==
            IF j = 0 THEN 0 ELSE 2 * weighted[j - 1] + StreamBit(pkt, 12 * i + j - 1)
    IN  weighted[12]

IsPayload(pkt, p) == \A i \in 3..FRAME_LEN : pkt[i] = p[((i - 3) % 3) + 1]

\* C5: decoded sample i of a 20-byte frame is 0.48828125 times the 12-bit
\* integer at bits 12i .. 12i+11 of the payload's bit stream, in stream order;
\* all-zero, all-0xFF and [0x80,0x08,0x00] x 6 payloads give twelve times
\* 0, 4095 x 0.48828125 and 1000.0.
C5_SamplesAreScaledChunks ==
    (samples # None /\ Len(packet) = FRAME_LEN) =>
        /\ DOMAIN samples = 1..12
        /\ \A i \in 0..11 : samples[i + 1] = Chunk(packet, i) * SCALE_NUM
        /\ IsPayload(packet, <<0, 0, 0>>) => \A i \in 1..12 : samples[i] = 0
        /\ IsPayload(packet, <<255, 255, 255>>) =>
               \A i \in 1..12 : samples[i] = 4095 * SCALE_NUM
        /\ IsPayload(packet, <<128, 8, 0>>) =>
               \A i \in 1..12 : samples[i] = 1000 * SCALE_DEN

\* the frame of constant value 0x800 has been decoded to twelve times 1000.0
C5_Witness ==
    /\ samples # None
    /\ IsPayload(packet, <<128, 8, 0>>)
    /\ samples = [i \in 1..12 |-> 1000 * SCALE_DEN]

\* C6: a frame shorter than 20 bytes is not passed on: no EEG callback is
\* invoked for it, and the store holds the samples of full frames only.
C6_ShortFrameNotDelivered ==
    /\ \A i \in DOMAIN delivered : delivered[i].frame_len >= FRAME_LEN
    /\ \A c \in Channels : Len(appended[c]) % SAMPLES_PER_PACKET = 0

\* C7: the decoded samples do not depend on the two header bytes.
C7_HeaderIgnored ==
    (samples # None /\ Len(packet) = FRAME_LEN) =>
        \A h \in [1..2 -> HeaderBytes] :
            decode_packet(h \o SubSeq(packet, 3, FRAME_LEN)) = samples

\* a frame with a non-zero header and non-zero samples has been decoded
C7_Witness ==
    /\ samples # None
    /\ packet[1] # 0
    /\ packet[2] # 0
    /\ \E i \in DOMAIN samples : samples[i] # 0

(***************************************************************************)
(* Properties of the event bus                                             *)
(***************************************************************************)
\* the events a handler was invoked with, in order of invocation
InvokedEvents(h) ==
    LET Mine(entry) == entry.handler = h
        calls == SelectSeq(log, Mine)
    IN  [i \in 1..Len(calls) |-> calls[i].event]

\* the handlers invoked with an event, in order of invocation
InvokedHandlers(e) ==
    LET Its(entry) == entry.event = e
        calls == SelectSeq(log, Its)
    IN  [i \in 1..Len(calls) |-> calls[i].handler]

\* the events published after the first n publish calls that a subscription
\* for key is to receive
EventsFor(key, n) ==
    LET later == [i \in 1..(Len(published) - n) |-> published[n + i].event]
        Wanted(e) == key = None \/ e.type = key
    IN  SelectSeq(later, Wanted)

SubscribedOnce(h) ==
    Cardinality({i \in DOMAIN subscriptions : subscriptions[i].handler = h}) = 1

\* C8: between publish calls, a handler subscribed once, for a type or as
\* wildcard, has been invoked exactly once for every matching event published
\* since its subscription, in publish order, and for no other event.
C8_DeliveredExactlyOnce ==
    dispatch.pc = "idle" =>
        \A i \in DOMAIN subscriptions :
            SubscribedOnce(subscriptions[i].handler) =>
                InvokedEvents(subscriptions[i].handler)
                    = EventsFor(subscriptions[i].key, subscriptions[i].at)

\* C9: a publish call that is over has invoked the handlers of the event's
\* type in registration order, then the wildcard handlers in registration
\* order, and no handler is invoked for an event once a later publish began.
C9_TypedThenWildcard ==
    /\ \A k \in DOMAIN published :
           (k < Len(published) \/ dispatch.pc = "idle") =>
               InvokedHandlers(published[k].event)
                   = published[k].typed \o published[k].wildcard
    /\ \A i, j \in DOMAIN log : i < j => log[i].event.seq <= log[j].event.seq

\* C10: once a handler has raised for an event, the handlers ordered after it
\* are still invoked with that event, and the remaining events of the tick are
\* still published.
C10_FaultIsolated ==
    \A j \in DOMAIN log :
        (log[j].outcome = "raised" /\ dispatch.pc = "idle") =>
            /\ Len(InvokedHandlers(log[j].event))
                   = Len(published[log[j].event.seq].typed)
                       + Len(published[log[j].event.seq].wildcard)
            /\ \A i \in DOMAIN tick_events :
                   \E k \in DOMAIN published : published[k].event = tick_events[i]

(***************************************************************************)
(* The detectors                                                           *)
(***************************************************************************)
\* the last `seconds` of a channel, from what was appended to it
Recent(channel, seconds) == LastK(appended[channel], IntSamples(seconds))

\* C11: BlinkDetector.detect(store, now) returns exactly one BLINK with
\* timestamp now and magnitude max(ptp(AF7), ptp(AF8)) over the last
\* blink_window seconds, and sets last_blink to now, if and only if both
\* windows hold at least 10 samples, that maximum is strictly above the
\* threshold and now - last_blink >= debounce; otherwise it returns no event
\* and leaves last_blink unchanged.
C11_BlinkIffConditions ==
    call.detector = "blink" =>
        LET af7 == Recent("AF7", blink_window)
            af8 == Recent("AF8", blink_window)
            enough == Len(af7) >= 10 /\ Len(af8) >= 10
            peak == IF enough THEN Max(Ptp(af7), Ptp(af8)) ELSE 0
            fires == /\ enough
                     /\ peak > blink_threshold
                     /\ call.now - call.last >= blink_debounce
        IN  IF fires
            THEN /\ call.events = <<Event("BLINK", call.now, peak, {})>>
                 /\ _last_blink = call.now
            ELSE /\ call.events = <<>>
                 /\ _last_blink = call.last

\* a blink found on AF8 alone, the spike on AF7 being at the threshold
C11_Witness ==
    /\ call.detector = "blink"
    /\ Len(call.events) = 1
    /\ Ptp(Recent("AF7", blink_window)) = blink_threshold
    /\ Ptp(Recent("AF8", blink_window)) = blink_threshold + 1

\* the events the detector had returned before the last call
EmittedBefore == SubSeq(emitted, 1, Len(emitted) - Len(call.events))

\* C12: with non-decreasing now, any two events one BlinkDetector (one
\* ClenchDetector) emits are at least its debounce apart, and a call made
\* less than the debounce after an emission returns no event, whatever the
\* store holds.
C12_DebounceSpacing ==
    /\ \A i, j \in 1..Len(emitted) :
          i < j => emitted[j].timestamp - emitted[i].timestamp
                        >= (IF emitted[i].type = "BLINK"
                            THEN blink_debounce ELSE clench_debounce)
    /\ (call.detector # None /\ Len(EmittedBefore) > 0) =>
          LET since == call.now - EmittedBefore[Len(EmittedBefore)].timestamp
          IN  since < Debounce(call.detector) => call.events = <<>>

\* after two blinks a debounce apart, a call half a debounce later finds the
\* spike still in the window and returns nothing
C12_Witness ==
    /\ call.detector = "blink"
    /\ Len(emitted) = 2
    /\ emitted[2].timestamp - emitted[1].timestamp = blink_debounce
    /\ call.now - emitted[2].timestamp = blink_debounce \div 2
    /\ call.events = <<>>
    /\ Len(Recent("AF8", blink_window)) >= 10
    /\ Ptp(Recent("AF7", blink_window)) > blink_threshold

\* C13: ClenchDetector.detect(store, now) returns exactly one CLENCH with
\* timestamp now and magnitude max(RMS of the filtered TP9 window, RMS of
\* the filtered TP10 window), and sets last_clench to now, if and only if
\* both windows hold at least 10 samples, that maximum is strictly above the
\* threshold and now - last_clench >= debounce; otherwise it returns no
\* event and leaves last_clench unchanged.
C13_ClenchIffConditions ==
    call.detector = "clench" =>
        LET enough == /\ Min(Len(appended["TP9"]), capacity) >= 10
                      /\ Min(Len(appended["TP10"]), capacity) >= 10
            rms == IF call.rms9 >= call.rms10 THEN call.rms9 ELSE call.rms10
            fires == /\ enough
                     /\ rms > clench_threshold
                     /\ call.now - call.last >= clench_debounce
        IN  IF fires
            THEN /\ call.events = <<Event("CLENCH", call.now, rms, {})>>
                 /\ _last_clench = call.now
            ELSE /\ call.events = <<>>
                 /\ _last_clench = call.last

\* a clench found on TP10 alone, TP9 being at the threshold
C13_Witness ==
    /\ call.detector = "clench"
    /\ Len(call.events) = 1
    /\ call.rms9 = clench_threshold
    /\ call.rms10 = clench_threshold + 1

\* C14: an update of the AlphaBurstDetector that reaches the state machine
\* (history of at least 4 entries, baseline = median(history) > 0) with
\* ratio = current_alpha / baseline moves IDLE to IN_BURST and emits one
\* ALPHA_BURST_START when ratio > 1.5, moves IN_BURST to IDLE and emits one
\* ALPHA_BURST_END when ratio < 1.0, and in every other case (a ratio equal
\* to a threshold, baseline <= 0, an update that stops earlier) emits
\* nothing and keeps the burst state; the initial state is IDLE; the event
\* carries value = ratio and metadata {alpha_power, baseline}.
\* (alpha_power a is in half units and the baseline in quarter units:
\* ratio > 1.5 is 4a > 3 * baseline, ratio < 1.0 is 2a < baseline.)
C14_AlphaStateMachine ==
    /\ call = NoCall => ~_in_burst
    /\ call.detector = "alpha" =>
        LET a == call.alpha_power
            baseline == IF Len(_baseline_values) > 0
                        THEN Median(_baseline_values) ELSE 0
            reached == /\ call.updated
                       /\ ~call.short
                       /\ Len(_baseline_values) >= 4
                       /\ baseline > 0
            ev(type) == Event(type, call.now, [num |-> 2 * a, den |-> baseline],
                              {<<"alpha_power", a>>, <<"baseline", baseline>>})
        IN  IF reached /\ ~call.in_burst /\ 4 * a > 3 * baseline
            THEN _in_burst /\ call.events = <<ev("ALPHA_BURST_START")>>
            ELSE IF reached /\ call.in_burst /\ 2 * a < baseline
            THEN ~_in_burst /\ call.events = <<ev("ALPHA_BURST_END")>>
            ELSE call.events = <<>> /\ _in_burst = call.in_burst

\* an update that ends a burst
C14_Witness ==
    /\ call.detector = "alpha"
    /\ call.in_burst
    /\ Len(call.events) = 1
    /\ call.events[1].type = "ALPHA_BURST_END"
    /\ ~_in_burst

\* C15: the events one AlphaBurstDetector emits from its initial state are
\* START, END, START, ... in strict alternation: no START while a burst is
\* on, no END before a START, and at most one event per detect call.
C15_StartEndAlternate ==
    /\ \A i \in 1..Len(emitted) :
          emitted[i].type = IF i % 2 = 1 THEN "ALPHA_BURST_START"
                            ELSE "ALPHA_BURST_END"
    /\ _in_burst = (Len(emitted) % 2 = 1)
    /\ call.detector = "alpha" => Len(call.events) <= 1

\* a second burst has started
C15_Witness ==
    /\ call.detector = "alpha"
    /\ Len(emitted) = 3
    /\ Len(call.events) = 1
    /\ _in_burst

\* the index in the published list of the last event of one of the types, or 0
LastPublished(types) ==
    LET idx == {i \in 1..Len(published) : published[i].event.type \in types}
    IN  IF idx = {} THEN 0 ELSE CHOOSE i \in idx : \A j \in idx : j <= i

\* C16: handling a published event changes exactly one field of the sound
\* parameters: BLINK sets blink_trigger to 1.0, CLENCH sets clench_trigger to
\* 1.0, ALPHA_BURST_START sets alpha_state to true and ALPHA_BURST_END sets it
\* to false; so alpha_state always tells whether the last alpha burst event
\* published was a start.
C16_HandleOneField ==
    [][/\ Len(published') = Len(published) + 1 =>
             LET type == published'[Len(published')].event.type
             IN  params' =
                     IF type = "BLINK"
                     THEN [params EXCEPT !.blink_trigger = [num |-> 1, den |-> 1]]
                     ELSE IF type = "CLENCH"
                     THEN [params EXCEPT !.clench_trigger = [num |-> 1, den |-> 1]]
                     ELSE [params EXCEPT !.alpha_state = (type = "ALPHA_BURST_START")]
       /\ LET last == LastPublished({"ALPHA_BURST_START", "ALPHA_BURST_END"})'
          IN  params'.alpha_state =
                  (last # 0 /\ published'[last].event.type = "ALPHA_BURST_START")
      ]_vars

\* a burst has ended in the tick after the one it started in, the blink
\* trigger of the first tick still decaying
C16_Witness ==
    /\ Len(published) >= 3
    /\ published[Len(published)].event.type = "ALPHA_BURST_END"
    /\ \E i \in 1..Len(published) : published[i].event.type = "ALPHA_BURST_START"
    /\ ~params.alpha_state
    /\ params.blink_trigger.num > 0

\* x + y
FAdd(x, y) == Frac(x.num * y.den + y.num * x.den, x.den * y.den)

\* lo <= x <= hi
Within(x, lo, hi) == FLeq(Frac(lo[1], lo[2]), x) /\ FLeq(x, Frac(hi[1], hi[2]))

\* C17: in every state of the pipeline the band weights lie in [0, 1] and sum
\* to at most 1, amplitude lies in [0.05, 0.9], base_frequency lies in the
\* configured range, and brightness, noise_gain and both triggers lie in [0, 1].
C17_ParamsInRange ==
    /\ \A w \in {params.alpha, params.beta, params.theta, params.delta,
                 params.gamma, params.brightness, params.noise_gain,
                 params.blink_trigger, params.clench_trigger} :
           Within(w, <<0, 1>>, <<1, 1>>)
    /\ FLeq(FAdd(FAdd(FAdd(params.alpha, params.beta),
                      FAdd(params.theta, params.delta)), params.gamma),
            Frac(1, 1))
    /\ Within(params.amplitude, <<1, 20>>, <<9, 10>>)
    /\ Within(params.base_frequency, <<base_frequency_range[1], 1>>,
              <<base_frequency_range[2], 1>>)

\* the tick in which the event published i-th was published
TickOf(i) == CHOOSE k \in 1..Ticks : starts[k + 1] = published[i].event.timestamp

\* max(0, 1 - t / decay), 0 when below 0.01
LinearLaw(t, decay) ==
    LET v == Frac(Max(0, decay - t), decay)
    IN  IF 100 * v.num < v.den THEN Frac(0, 1) ELSE v

\* the product over the ticks k..n of max(0, 1 - dt / decay), dt the time
\* from the start of the tick before to the start of the tick, and 0 from
\* the first tick on that brings it below 0.01
RECURSIVE ProductLaw(_, _, _)
ProductLaw(k, n, decay) ==
    IF n < k THEN Frac(1, 1)
    ELSE LET before == ProductLaw(k, n - 1, decay)
             v == Frac(before.num * Max(0, decay - (starts[n + 1] - starts[n])),
                       before.den * decay)
         IN  IF 100 * v.num < v.den THEN Frac(0, 1) ELSE v

\* the ticks have decayed the triggers up to the running one
AfterDecay == pc \in {"render", "sleep"}

\* C18 as stated: once a trigger was set to 1.0 and no further event of its
\* type came, the decays of the ticks since, their dt adding up to t, leave it
\* at max(0, 1 - t / decay), 0 when that is below 0.01.
C18_LinearDecay ==
    AfterDecay =>
        LET b == LastPublished({"BLINK"})
            c == LastPublished({"CLENCH"})
        IN  /\ b # 0 => params.blink_trigger =
                   LinearLaw(starts[Ticks + 1] - starts[TickOf(b)], blink_decay)
            /\ c # 0 => params.clench_trigger =
                   LinearLaw(starts[Ticks + 1] - starts[TickOf(c)], clench_decay)

\* C18: once a trigger was set to 1.0 and no further event of its type came,
\* the decays of the ticks since leave it at the product of their factors
\* max(0, 1 - dt / decay), and at 0 from the first tick on that brings it
\* below 0.01; after one tick that is max(0, 1 - dt / decay).
C18_ProductDecay ==
    AfterDecay =>
        LET b == LastPublished({"BLINK"})
            c == LastPublished({"CLENCH"})
        IN  /\ b # 0 => params.blink_trigger = ProductLaw(TickOf(b), Ticks, blink_decay)
            /\ c # 0 => params.clench_trigger = ProductLaw(TickOf(c), Ticks, clench_decay)

\* two ticks of 100 ms have decayed a blink of the first tick to 1/4 and its
\* clench to 4/9
C18_Witness ==
    /\ pc = "sleep"
    /\ Ticks = 2
    /\ LastPublished({"BLINK"}) # 0 /\ TickOf(LastPublished({"BLINK"})) = 1
    /\ LastPublished({"CLENCH"}) # 0 /\ TickOf(LastPublished({"CLENCH"})) = 1
    /\ params.blink_trigger = [num |-> 1, den |-> 4]
    /\ params.clench_trigger = [num |-> 4, den |-> 9]

\* the statements a tick has run, publications left out
StepsRun ==
    LET steps == SelectSeq(trace, LAMBDA e : e.step # "publish")
    IN  [i \in 1..Len(steps) |-> IF steps[i].step = "detect" THEN steps[i].detector
                                 ELSE steps[i].step]

\* C19: every tick runs, in this order and each exactly once: the blink, the
\* clench and the alpha detector, each event published before the next
\* detector runs; the update of the continuous parameters; the decay of the
\* triggers by the time measured since the start of the tick before; the
\* rendering of one block from the parameters; and a tick begins only after
\* the tick before has completed.
C19_TickOrder ==
    LET order == <<"blink", "clench", "alpha", "update", "decay", "render">>
    IN  /\ Len(StepsRun) <= Len(order)
        /\ StepsRun = SubSeq(order, 1, Len(StepsRun))
        /\ pc \in {"sleep", "top", "done"} /\ Ticks >= 1 => StepsRun = order
        /\ pc = "blink" => trace = <<>>
        /\ pc \in {"clench", "alpha", "update", "decay", "render"} =>
               /\ Len(StepsRun) >= 1
               /\ pc = order[Len(StepsRun) + 1]
        /\ \A i \in 1..Len(trace) :
              /\ trace[i].step = "publish" =>
                    /\ i > 1
                    /\ trace[i - 1].step = "detect"
                    /\ trace[i].event.type \in
                           IF trace[i - 1].detector = "blink" THEN {"BLINK"}
                           ELSE IF trace[i - 1].detector = "clench" THEN {"CLENCH"}
                           ELSE {"ALPHA_BURST_START", "ALPHA_BURST_END"}
              /\ trace[i].step = "decay" =>
                    trace[i].dt = starts[Ticks + 1] - starts[Ticks]
              /\ trace[i].step = "render" => trace[i].params = params

\* a second tick has completed, all three detectors having published in it
C19_Witness ==
    /\ pc = "sleep"
    /\ Ticks = 2
    /\ Len(trace) = 9
    /\ trace[7].step = "update"

\* C20: a stop request made at any time after start() was called, the
\* connection attempt included, keeps every further tick from beginning, and
\* when start() has returned the audio stream is stopped and the transport
\* disconnected.
C20_StopEndsLoop ==
    /\ stop_at # NoStop => Ticks <= stop_at
    /\ pc = "done" => ~_stream /\ ~_client

(***************************************************************************)
(* The transport, the audio engine and the construction of the objects     *)
(***************************************************************************)
\* C21: connect() makes at most max_retries attempts, sleeps retry_delay
\* after every failed attempt but the last, returns right after the first
\* attempt in which the client connected, the four channels were subscribed
\* and RESUME was written, in that order, raises once every attempt has
\* failed, and connected is true only after a successful attempt.
C21_ConnectContract ==
    LET steps == conn.steps
        failed == {i \in 1..Len(steps) : steps[i].step = "failed"}
        succeeded == {i \in 1..Len(steps) : steps[i].step = "succeeded"}
    IN  /\ conn.attempt <= max_retries
        /\ Cardinality(failed) + Cardinality(succeeded) <= conn.attempt
        /\ \A i \in failed :
              IF steps[i].attempt < max_retries
              THEN IF i < Len(steps)
                   THEN steps[i + 1] = [step |-> "sleep", seconds |-> retry_delay]
                   ELSE conn.pc = "sleep"
              ELSE i = Len(steps) /\ conn.pc \in {"loop", "raised"}
        /\ \A i \in 1..Len(steps) :
              steps[i].step = "sleep" => i > 1 /\ (i - 1) \in failed
        /\ conn.resumed => conn.notified = CHANNEL_NAMES
        /\ conn.notified # <<>> =>
              /\ conn.client = conn.attempt
              /\ conn.notified = SubSeq(CHANNEL_NAMES, 1, Len(conn.notified))
        /\ succeeded # {} <=> conn.pc = "returned"
        /\ conn.pc = "returned" =>
              /\ succeeded = {Len(steps)}
              /\ conn.resumed
              /\ Cardinality(failed) = conn.attempt - 1
        /\ conn.pc = "raised" =>
              \/ steps = <<>> /\ conn.attempt = 0
              \/ Cardinality(failed) = max_retries
        /\ connected => conn.pc = "returned"

\* the position in the written list of a block a callback played
WrittenAt(block) == CHOOSE k \in 1..Len(audio.written) : audio.written[k] = block

\* C22: the queue never holds more than buffer_blocks blocks; a write on a
\* full queue drops exactly the oldest queued block and keeps the others,
\* followed by the new block; the callback consumes blocks in the order
\* written, outputs zeros when the queue is empty and pads a block shorter
\* than the frames asked for with zeros.
C22_BoundedFifo ==
    LET played == audio.played
        blocks == SelectSeq(played, LAMBDA e : ~e.underflow)
    IN  /\ Len(_buffer) <= buffer_blocks
        /\ audio.last.op = "write" =>
              _buffer = (IF Len(audio.last.before) = buffer_blocks
                         THEN Tail(audio.last.before) ELSE audio.last.before)
                            \o <<audio.last.block>>
        /\ \A i \in 1..Len(blocks) :
              /\ \E k \in 1..Len(audio.written) : audio.written[k] = blocks[i].block
              /\ i > 1 => WrittenAt(blocks[i - 1].block) < WrittenAt(blocks[i].block)
              /\ \A j \in 1..Len(_buffer) :
                    WrittenAt(blocks[i].block) < WrittenAt(_buffer[j])
        /\ \A j \in 1..Len(_buffer) :
              /\ \E k \in 1..Len(audio.written) : audio.written[k] = _buffer[j]
              /\ j > 1 => WrittenAt(_buffer[j - 1]) < WrittenAt(_buffer[j])
        /\ \A i \in 1..Len(played) :
              LET e == played[i]
              IN  /\ Len(e.outdata) = e.frames
                  /\ \A f \in 1..e.frames :
                        e.outdata[f] =
                            IF e.underflow \/ f > Len(e.block) THEN 0
                            ELSE e.block[f]

\* a write on a full queue has dropped the oldest block; before it a callback
\* found the queue empty and another padded a short block
C22_Witness ==
    /\ audio.last.op = "write"
    /\ Len(audio.last.before) = buffer_blocks
    /\ \E i \in 1..Len(audio.played) : audio.played[i].underflow
    /\ \E i \in 1..Len(audio.played) :
          /\ ~audio.played[i].underflow
          /\ Len(audio.played[i].block) < audio.played[i].frames

(***************************************************************************)
(* The sample store: sizes and reads                                       *)
(***************************************************************************)
\* C23: in every state of the store, for every channel the count lies in
\* 0..capacity and the write position in 0..capacity-1, the count is the
\* smaller of the number of samples ever appended and the capacity, and
\* total_samples() is the sum of the four channels' counts.
C23_StoreInvariants ==
    /\ \A c \in Channels :
          /\ 0 <= sample_count(c) /\ sample_count(c) <= capacity
          /\ 0 <= _write_pos[c] /\ _write_pos[c] < capacity
          /\ sample_count(c) = Min(Len(appended[c]), capacity)
    /\ total_samples = sample_count(CHANNEL_NAMES[1]) + sample_count(CHANNEL_NAMES[2])
                           + sample_count(CHANNEL_NAMES[3]) + sample_count(CHANNEL_NAMES[4])
    /\ last_call.op = "total_samples" => last_call.value = total_samples

\* C24: the capacity of every channel ring is the ceiling of duration x
\* sample_rate, for every positive duration.
C24_CapacityIsCeiling ==
    /\ capacity = (duration * SAMPLE_RATE + TimeDen - 1) \div TimeDen
    /\ \A c \in Channels : DOMAIN _buffers[c] = 0 .. capacity - 1

\* C25: get_window, sample_count and total_samples change no channel's
\* buffer, write position or count, and neither does the detect call of a
\* detector; the content of the array get_window returned is not changed by
\* any later append.
C25_ReadsAreCopies ==
    [][/\ last_call'.op # "append" => UNCHANGED <<_buffers, _write_pos, _count>>
       /\ call' # call => UNCHANGED <<_buffers, _write_pos, _count>>
       /\ ArrayContents(result)' = window'
      ]_vars

\* the slots a returned window was copied from have all been overwritten,
\* and a detector has read the store since
C25_Witness ==
    /\ window # <<>>
    /\ last_call.op = "append"
    /\ \A c \in Channels : \A i \in Slots : \A j \in 1..Len(window) :
          _buffers[c][i] # window[j]
    /\ call # NoCall

(***************************************************************************)
(* The alpha burst detector: hysteresis, cadence and history               *)
(***************************************************************************)
\* the ratio of the i-th update lies in [1.0, R]
InBand(i) ==
    LET in == hyst.inputs[i]
    IN  /\ in[2] > 0
        /\ 2 * in[1] >= in[2]
        /\ 2 * in[1] * ratio_threshold.den <= ratio_threshold.num * in[2]

\* the updates i..j all have the same ratio
SameRatio(i, j) ==
    \A k \in i..j :
        /\ hyst.inputs[k][2] > 0
        /\ hyst.inputs[k][1] * hyst.inputs[i][2] = hyst.inputs[i][1] * hyst.inputs[k][2]

\* C26: with R >= 1.0, an update whose ratio lies within [1.0, R] changes
\* the burst state never and produces no event, and successive updates with
\* one constant ratio produce at most one event in total.
C26_Hysteresis ==
    LET n == Len(hyst.inputs)
        after(i) == IF i = n THEN hyst.in_burst ELSE hyst.was[i + 1]
    IN  /\ ratio_threshold.num >= ratio_threshold.den
        /\ \A i \in 1..n :
              InBand(i) => hyst.events[i] = None /\ after(i) = hyst.was[i]
        /\ \A i \in 1..n : \A j \in i..n :
              SameRatio(i, j) =>
                  Cardinality({k \in i..j : hyst.events[k] # None}) <= 1

\* a burst started above R, stayed on through ratios of 1.0 and R, and
\* ended below 1.0
C26_Witness ==
    /\ Len(hyst.inputs) = 4
    /\ hyst.events = <<"ALPHA_BURST_START", None, None, "ALPHA_BURST_END">>
    /\ InBand(2) /\ InBand(3)
    /\ 2 * hyst.inputs[2][1] = hyst.inputs[2][2]
    /\ 2 * hyst.inputs[3][1] * ratio_threshold.den
           = ratio_threshold.num * hyst.inputs[3][2]

\* C27: a detect call with now - last_update < update_interval returns no
\* event and changes neither the history, the burst flag nor the last-update
\* time; so the history gains at most one entry per update_interval and two
\* updates that reach the state machine are at least update_interval apart.
C27_UpdateCadence ==
    [][/\ (call'.detector = "alpha" /\ call' # call
              /\ call'.now - _last_update < update_interval) =>
             /\ call'.events = <<>>
             /\ emitted' = emitted
             /\ UNCHANGED <<_baseline_values, _in_burst, _last_update>>
       /\ _last_update' # _last_update =>
             _last_update' - _last_update >= update_interval
       /\ (_baseline_values' # _baseline_values \/ emitted' # emitted
              \/ _in_burst' # _in_burst) =>
             /\ _last_update' - _last_update >= update_interval
             /\ Len(_baseline_values') <= Len(_baseline_values) + 1
             /\ Len(emitted') <= Len(emitted) + 1
      ]_vars

\* a call made half an interval after an update that took a value into the
\* history during a burst
C27_Witness ==
    /\ call.detector = "alpha"
    /\ ~call.updated
    /\ call.now - _last_update = update_interval \div 2
    /\ _last_update > 0
    /\ Len(_baseline_values) >= 4
    /\ _in_burst

\* C28: the history never holds more than baseline_seconds / update_interval
\* values, the oldest being dropped when a new one arrives at that size; the
\* current alpha value is in the history when the baseline median is taken;
\* and an update after which the history holds fewer than 4 values emits
\* nothing.
C28_RollingHistory ==
    [][/\ Len(_baseline_values') * update_interval <= BaselineSeconds
       /\ (call'.detector = "alpha" /\ call' # call /\ call'.updated
              /\ ~call'.short) =>
             /\ _baseline_values' =
                   (IF (Len(_baseline_values) + 1) * update_interval > BaselineSeconds
                    THEN Tail(_baseline_values) ELSE _baseline_values)
                       \o <<call'.alpha_power>>
             /\ \A i \in 1..Len(call'.events) :
                   \E m \in call'.events[i].metadata :
                       m = <<"baseline", Median(_baseline_values')>>
       /\ (call'.detector = "alpha" /\ Len(_baseline_values') < 4) =>
             call'.events = <<>> /\ emitted' = emitted
      ]_vars

\* an update on a full history that dropped the oldest value and emitted
C28_Witness ==
    /\ call.detector = "alpha"
    /\ call.updated /\ ~call.short
    /\ (call.held + 1) * update_interval > BaselineSeconds
    /\ Len(_baseline_values) = call.held
    /\ Len(call.events) = 1

\* the tunables of a constructor call that the admissible ranges exclude
OutOfRange(b) ==
    LET a == b.args
        has(f) == f \in DOMAIN a
    IN  \/ \E f \in {"threshold", "blink_threshold", "clench_threshold"} :
              has(f) /\ a[f] < 0
        \/ \E f \in {"window", "debounce", "duration", "blink_window",
                     "blink_debounce", "clench_window", "clench_debounce",
                     "blink_decay", "clench_decay", "eeg_buffer_seconds"} :
              has(f) /\ a[f] <= 0
        \/ \E f \in {"ratio_threshold", "alpha_burst_ratio"} :
              has(f) /\ a[f].num < a[f].den
        \/ has("baseline_seconds") /\ has("update_interval")
              /\ (a.update_interval <= 0
                    \/ a.baseline_seconds < 4 * a.update_interval)
        \/ has("alpha_baseline_seconds")
              /\ a.alpha_baseline_seconds < 4 * update_interval

\* C29: a detector, store or pipeline constructed with a tunable outside its
\* admissible range (negative threshold; zero or negative window, debounce,
\* decay or buffer duration; entry ratio below 1.0; baseline shorter than
\* four update intervals) is rejected with an invalid-argument error.
C29_InvalidRejected ==
    (built.cls # "none" /\ OutOfRange(built)) => built.raised = "ValueError"

\* the fields of the record that the mapping writes
Mapped(p) ==
    <<p.alpha, p.beta, p.theta, p.delta, p.gamma, p.amplitude,
      p.base_frequency, p.brightness, p.noise_gain>>

\* C30: with the store unchanged and no event handled in between, two
\* consecutive calls of _update_sound_params leave identical records; what
\* the mapping writes depends only on the AF7 window and the configuration;
\* and with fewer than 256 samples on AF7 the record is left unchanged.
C30_MappingIdempotent ==
    \A i \in 1..Len(trace) :
        trace[i].step = "update" =>
            /\ trace[i].len < SAMPLE_RATE => trace[i].after = trace[i].before
            /\ (i < Len(trace) /\ trace[i + 1].step = "update") =>
                  /\ trace[i + 1].before = trace[i].after
                  /\ trace[i + 1].after = trace[i].after
            /\ \A j \in 1..Len(trace) :
                  (/\ trace[j].step = "update"
                   /\ trace[j].len >= SAMPLE_RATE
                   /\ trace[i].len >= SAMPLE_RATE
                   /\ trace[j].powers = trace[i].powers) =>
                      Mapped(trace[j].after) = Mapped(trace[i].after)

\* two calls in a row on a full window, the first of which changed the
\* record, after an event set a trigger
C30_Witness ==
    \E i \in 2..(Len(trace) - 1) :
        /\ trace[i - 1].step = "event"
        /\ trace[i].step = "update"
        /\ trace[i + 1].step = "update"
        /\ trace[i].len >= SAMPLE_RATE
        /\ Mapped(trace[i].after) # Mapped(trace[i].before)
        /\ trace[i].after.blink_trigger = Frac(1, 1)

\* the detector of the last call had returned no event before that call
FirstEmission == Len(emitted) = Len(call.events)

\* C34: a BlinkDetector or ClenchDetector that has emitted no event yet is
\* not inside a debounce period: its detect call on a qualifying window
\* (at least 10 samples on both channels, amplitude above the threshold)
\* emits an event for every now >= 0, also for now below the debounce
\* interval.
C34_FirstCallNotDebounced ==
    /\ (call.detector = "blink" /\ FirstEmission /\ call.now >= 0) =>
          LET af7 == Recent("AF7", blink_window)
              af8 == Recent("AF8", blink_window)
          IN  (/\ Len(af7) >= 10 /\ Len(af8) >= 10
               /\ Max(Ptp(af7), Ptp(af8)) > blink_threshold) =>
                  Len(call.events) = 1
    /\ (call.detector = "clench" /\ FirstEmission /\ call.now >= 0) =>
          LET tp9 == Recent("TP9", clench_window)
              tp10 == Recent("TP10", clench_window)
          IN  (Len(tp9) >= 10 /\ Len(tp10) >= 10) =>
                  /\ call.filters
                  /\ Max(call.rms9, call.rms10) > clench_threshold =>
                        Len(call.events) = 1

\* C35: one spike yields at most one BLINK: when no sample is appended to
\* AF7 or AF8 between a detect call that emitted a BLINK and the next detect
\* call, that next call emits no event, however much later it is made.
C35_OneBlinkPerSpike ==
    [][(/\ call.detector = "blink" /\ Len(call.events) = 1
        /\ call'.detector = "blink" /\ call' # call
        /\ appended' = appended) =>
           call'.events = <<>>
      ]_vars

\* the place in the channel's sample stream of the chunk the clench detector
\* passes to process(): the samples ChunkLo..ChunkHi that were appended
ChunkHi(channel) == Len(appended[channel])
ChunkLo(channel) == ChunkHi(channel) - Len(Recent(channel, clench_window)) + 1

\* C38: over successive ClenchDetector.detect calls each stored sample of
\* TP9 (TP10) is fed to that channel's streaming filter at most once and in
\* stream order: the chunk of a call starts after the end of the chunk of
\* the call before it.
C38_ChunksDoNotOverlap ==
    [][(/\ call.detector = "clench" /\ call.filters
        /\ call'.detector = "clench" /\ call'.filters /\ call' # call) =>
           \A c \in {"TP9", "TP10"} : ChunkLo(c)' > ChunkHi(c)
      ]_vars

\* an event of the type was published in the last tick
PublishedInTick(type) ==
    \E i \in 1..Len(trace) : trace[i].step = "publish" /\ trace[i].type = type

\* the record the block of the last tick was rendered from
Rendered(i) == trace[i].step = "render"

\* C36: a BLINK or CLENCH published during a control tick is audible in
\* that tick: when the tick's block is rendered the trigger is strictly
\* positive, for every measured dt of the tick.
C36_AudibleInSameTick ==
    \A i \in 1..Len(trace) :
        Rendered(i) =>
            /\ PublishedInTick("BLINK") => trace[i].params.blink_trigger.num > 0
            /\ PublishedInTick("CLENCH") => trace[i].params.clench_trigger.num > 0

\* C37: after a BLINK or CLENCH has set its trigger to 1.0 and while no
\* further event of that type is published, the trigger never increases from
\* tick to tick, becomes exactly 0 after finitely many ticks (every dt being
\* > 0), and then stays 0 until the next event of that type.
C37_TriggerDiesOut ==
    /\ [][/\ ~PublishedInTick("BLINK")' =>
                /\ FLeq(params'.blink_trigger, params.blink_trigger)
                /\ params.blink_trigger.num = 0 => params'.blink_trigger.num = 0
          /\ ~PublishedInTick("CLENCH")' =>
                /\ FLeq(params'.clench_trigger, params.clench_trigger)
                /\ params.clench_trigger.num = 0 => params'.clench_trigger.num = 0
         ]_vars
    /\ (params.blink_trigger.num > 0) ~>
           (params.blink_trigger.num = 0 \/ PublishedInTick("BLINK"))
    /\ (params.clench_trigger.num > 0) ~>
           (params.clench_trigger.num = 0 \/ PublishedInTick("CLENCH"))

\* eleven ticks of 100 ms after a CLENCH, none of them with a further
\* CLENCH: the trigger is (2/3)^11, the last value above the cut-off, and
\* the blink trigger has died out
C37_Witness ==
    /\ ~PublishedInTick("CLENCH")
    /\ ~PublishedInTick("BLINK")
    /\ params.clench_trigger = Frac(2048, 177147)
    /\ params.blink_trigger.num = 0
    /\ dt = 100

\* C40: no connection attempt leaves a connected client behind: the client
\* of an attempt that failed after it had connected is disconnected before
\* the next attempt creates a new one, and once connect() has raised no
\* client is connected.
C40_NoClientLeftConnected ==
    /\ \A i \in 1..Len(conn.steps) :
          (conn.steps[i].step = "failed"
              /\ (conn.steps[i].attempt < conn.attempt \/ conn.pc = "raised")) =>
                 ~conn.steps[i].linked
    /\ conn.pc = "raised" => ~conn.is_connected

(***************************************************************************)
(* The pipeline with its transport                                         *)
(***************************************************************************)
\* how often Pipeline._handle_event is called for a published event
HandlerRuns(p) ==
    Cardinality({i \in 1..Len(p.typed \o p.wildcard) :
                    (p.typed \o p.wildcard)[i] = "_handle_event"})

\* C39: every frame the transport delivers is appended to the store exactly
\* once, and every event a detector publishes is handled by _handle_event
\* exactly once, also after start() has been called again on the same Pipeline
C39_ExactlyOnce ==
    [][/\ delivered' # delivered =>
            \E c \in Channels : appended' = [appended EXCEPT ![c] = @ \o samples']
       /\ \A i \in (Len(published) + 1)..Len(published') :
            HandlerRuns(published'[i]) = 1]_vars

\* the statements of one pass of the loop body, lines 145-164
TickBody == {"blink", "clench", "alpha", "update", "decay", "render"}

\* C33: no sample is appended to the store while a control tick runs, from its
\* first detector to the write of the audio block; the store changes only
\* while start() waits in connect() or in the sleep between two ticks
C33_NoAppendMidTick ==
    [][/\ pc \in TickBody => UNCHANGED <<_buffers, _write_pos, _count, appended>>
       /\ appended' # appended => pc \in {"connecting", "sleep"} /\ pc' = pc]_vars

\* a tick that has run its detectors and its mapper on a store holding a
\* frame delivered during a wait
C33_Witness ==
    /\ pc = "render"
    /\ fed["AF7"] > 0
    /\ Len(delivered) > 0
    /\ last_call.op = "append"

(***************************************************************************)
(* Shutdown                                                                *)
(***************************************************************************)
\* the loop flag is false, the audio stream is closed and its queue empty,
\* the client is released and the connection marked disconnected
Stopped ==
    /\ ~_running
    /\ ~_stream
    /\ _buffer = <<>>
    /\ conn.client = 0
    /\ ~conn._connected

\* C31: stop() may be called again, after a call that has returned or while
\* an earlier call still waits in disconnect() (the call of the signal
\* handler overlapping the one in the finally block of start()): no call
\* raises, and a call made again leaves the pipeline in the stopped state when
\* it returns
C31_StopIdempotent ==
    [][\A s \in StopIds :
           /\ stops'.calls[s].pc # "raised"
           /\ /\ stops.calls[s].pc # "returned"
              /\ stops'.calls[s].pc = "returned"
              /\ stops'.calls[s].again
              => Stopped']_vars

\* C32: a failure while a block is rendered or written, while the audio
\* stream is stopped or while the transport is disconnected is swallowed:
\* after a render that raised the loop goes on to its sleep and its next
\* tick, and no stop() ends by raising, so that a stream that fails to stop
\* does not keep disconnect() from running
C32_FailuresSwallowed ==
    /\ trace # <<>> /\ trace[Len(trace)].step = "raise"
           => pc \in {"sleep", "top"} /\ ~stops.raising
    /\ \A s \in StopIds :
           /\ stops.calls[s].pc # "raised"
           /\ stops.calls[s].audio = "raised"
                  => stops.calls[s].pc \in {"halt", "stop_notify", "disconnect",
                                            "returned"}

====
